---- MODULE Spec2Model ----
(***************************************************************************)
(* Verification model of the delta-rebalancing core of spot-rebalancer:    *)
(*   - RebalancePolicy            (src/bot/core/rebalance_policy.py)       *)
(*   - RecentFillsAnchor          (src/bot/core/recent_fills.py)           *)
(*   - SpotExecutionEngine        (src/bot/core/execution_spot.py)         *)
(*   - SpotRebalancer             (src/bot/core/rebalancer.py)             *)
(*                                                                         *)
(* Number representation.  The program computes in floats; the model       *)
(* computes the same expressions exactly, in fixed point:                  *)
(*   - base quantities (gap, thresholds handed to decide) are integers;    *)
(*   - partial_ratio and hysteresis_fraction are in hundredths (50 = 0.5), *)
(*     so decide's target_trade_base is carried in hundredths of a base    *)
(*     unit (-100*gap is "-gap", -r*gap is "-(r/100)*gap");                *)
(*   - bias_strength and combined_bias are in halves (2 = 1.0), so the     *)
(*     effective thresholds are carried in eighths of a base unit;         *)
(*   - an Optional value is a sequence: << >> is None, <<v>> is v.         *)
(***************************************************************************)
EXTENDS Integers, Sequences, FiniteSets, TLC

VARIABLES
    \* ---- RebalancePolicy (rebalance_policy.py:27-42) ----
    cfg_partial_ratio,               \* constructor argument partial_ratio (hundredths)
    cfg_hysteresis_fraction,         \* constructor argument hysteresis_fraction (hundredths)
    partial_ratio,                   \* self.partial_ratio
    hysteresis_fraction,             \* self.hysteresis_fraction
    last_action_threshold_used_abs,  \* self._last_action_threshold_used_abs (Optional)
    last_action_side,                \* self._last_action_side (Optional, +1 sell / -1 buy)
    decide_call,                     \* history: arguments and pre-state of the last decide() call
    decision,                        \* the dict returned by the last decide() call
    \* ---- Thresholds and compute_effective_thresholds (rebalance_policy.py:5-9, 50-67) ----
    th,                              \* self.th : [units, soft, hard]
    eff_call,                        \* history: arguments of the last compute_effective_thresholds()
    eff,                             \* the tuple it returned: [soft, hard] in eighths
    \* ---- RecentFillsAnchor (recent_fills.py:23-37) and its environment ----
    now,                             \* time.time(), whole seconds
    execs,                           \* the exchange's execution history of the symbol, oldest first
    cfg_window_seconds,              \* constructor argument window_seconds, in half seconds
    window_seconds,                  \* self.window_seconds
    poll_interval_s,                 \* self.poll_interval_s
    fills,                           \* self.fills (deque, leftmost first)
    last_poll_time,                  \* self._last_poll_time
    last_exec_id,                    \* self._last_exec_id (Optional)
    anchor,                          \* the dict returned by the last get_anchor() call (Optional)
    op,                              \* history: name of the last operation performed
    \* ---- SpotExecutionEngine (execution_spot.py:28-94) and the exchange's order entry ----
    now_half,                        \* the half-second fraction of time.time(): 0 or 1
    exec_cfg,                        \* self.cfg : ExecutionConfig
    eng_pc,                          \* where the engine's current call stands
    eng_call,                        \* history: the arguments of the engine call of the current or last step() (Optional)
    eng_deadline,                    \* the local variable deadline of maker_then_escalate (half seconds)
    eng_wake,                        \* the time at which time.sleep(0.5) returns (half seconds)
    eng_ret,                         \* the value the last engine call returned (Optional)
    orders,                          \* history: the requests sent by the current or last engine call or step()
    \* ---- SpotRebalancer (rebalancer.py:21-194) and its environment ----
    step_cfg,                        \* the rebalancer section of cfg read by step()
    ws_price,                        \* what ws.get_latest_price() last returned to step() (Optional)
    exposure,                        \* the spot balance and signed futures position step() last read
    soft_wait_start,                 \* self._last_soft_wait_start (Optional, half seconds)
    last_poll_half,                  \* the half-second fraction of fills_anchor.last_poll_time
    loop_wake,                       \* when the runner's time.sleep(0.5) after step() returns (half seconds)
    step_pc,                         \* where the current step() stands
    step_rec,                        \* history: what the current or last step() read and decided (Optional)
    \* ---- DeltaEngine (delta_engine.py:19-76) ----
    snap_call,                       \* the answers of the exchange to snapshot() and its argument (Optional)
    snap,                            \* the DeltaSnapshot the last snapshot() returned (Optional)
    \* ---- EmaTrendBias (trend_bias.py:13-86) ----
    ema_cfg,                         \* self.cfg : EmaConfig
    ema,                             \* self._ema_fast, _ema_slow, _prev_ema_fast, _prev_ema_slow, _last_close, _last_ts
    candle_call,                     \* history: the arguments of the last on_closed_candle() and the state it found (Optional)
    candles_taken,                   \* history: how many calls of on_closed_candle() found the estimator seeded
    bias_call,                       \* history: the arguments of the last get_bias() (Optional)
    ema_bias,                        \* what the last get_bias() computed and returned (Optional)
    \* ---- the policy asked at two biases (rebalance_policy.py:50-67, 69-181) ----
    urgency,                         \* history: the decisions taken from one state at a lower and a higher bias (Optional)
    \* ---- RecentFillsAnchor polling an exchange whose answer has a defect ----
    poll_call,                       \* history: the defect of the answer to the last such update() and the fills it found (Optional)
    \* ---- BybitWebSocketManager (exchange/client.py:330-550) ----
    ws,                              \* self.latest_candle_close, self.latest_candle_ts (Optional each)
    ws_pc,                           \* where the WebSocket thread stands in _on_message
    ws_msg,                          \* the closed candle of the message _on_message is handling (Optional)
    ws_feed,                         \* how many closed candles the exchange has sent
    kl_pc,                           \* where the polling thread stands in get_latest_closed_kline
    kl_close,                        \* the close get_latest_closed_kline has put into its dict (Optional)
    kline,                           \* what the last get_latest_closed_kline() returned (Optional)
    \* ---- DeltaTracker (delta_tracker.py:9-201) ----
    tracker_cfg,                     \* desired_delta_usdt, divergence_threshold_usdt, divergence_timeout_seconds
    tracker,                         \* last_total_delta, last_sync_time, divergence_start_time (Optional), is_diverging
    sync_ret,                        \* the dict the last sync_positions() returned (Optional)
    sync_log,                        \* history: time and divergence magnitude of every sync_positions()
    \* ---- SimplifiedEMAStrategy (strategy.py:24-1390) and its exchange account ----
    strat,                           \* the fields of the strategy object
    ex,                              \* the exchange: the futures position, accepted exits not yet filled, open entry orders
    strat_call,                      \* history: the last call, the state it found and the orders it submitted (Optional)
    life                             \* history: stops and take-profit orders since self.position was last 0

policyVars == <<cfg_partial_ratio, cfg_hysteresis_fraction, partial_ratio,
                hysteresis_fraction, last_action_threshold_used_abs,
                last_action_side, decide_call, decision>>

thresholdVars == <<th, eff_call, eff>>

fillsVars == <<now, execs, cfg_window_seconds, window_seconds, poll_interval_s,
               fills, last_poll_time, last_exec_id, anchor>>

engineVars == <<now_half, exec_cfg, eng_pc, eng_call, eng_deadline, eng_wake, eng_ret, orders>>

deltaVars == <<snap_call, snap>>

\* The state of the units step() consults, which step() is modelled as reading
\* through its inputs
emaVars == <<ema_cfg, ema, candle_call, candles_taken, bias_call, ema_bias>>

wsVars == <<ws, ws_pc, ws_msg, ws_feed, kl_pc, kl_close, kline>>

\* The collaborators of the runner and the futures strategy
trackerVars == <<tracker_cfg, tracker, sync_ret, sync_log>>

stratVars == <<strat, ex, strat_call, life>>

lateVars == <<wsVars, trackerVars, stratVars>>

unitVars == <<deltaVars, emaVars, urgency, poll_call, lateVars>>

stepOwnVars == <<step_cfg, ws_price, exposure, soft_wait_start, last_poll_half, loop_wake,
                 step_pc, step_rec>>

\* Everything but the collaborators
coreVars == <<policyVars, thresholdVars, fillsVars, engineVars, stepOwnVars, deltaVars,
              emaVars, urgency, poll_call>>

\* What the WebSocket manager and the tracker leave alone
wsRest == <<coreVars, trackerVars, stratVars>>

trackerRest == <<coreVars, wsVars, stratVars>>

stratRest == <<policyVars, thresholdVars, execs, cfg_window_seconds, window_seconds,
               poll_interval_s, fills, last_poll_time, last_exec_id, anchor, engineVars,
               stepOwnVars, deltaVars, emaVars, urgency, poll_call, wsVars, trackerVars>>

stepVars == <<stepOwnVars, unitVars>>

vars == <<policyVars, thresholdVars, fillsVars, op, engineVars, stepVars>>

----------------------------------------------------------------------------
(* Bounds of the model *)

\* |delta_gap_base| handed to decide() ranges over 0..MaxGap
MaxGap == 4

\* eff_soft and eff_hard handed to decide() range over 0..MaxThr
MaxThr == 3

\* An engine call begins only while its deadline is at most MaxChaseClock half seconds
MaxChaseClock == 65

----------------------------------------------------------------------------
(* Helpers standing for Python built-ins *)

None == << >>

Some(v) == <<v>>

Max(a, b) == IF a >= b THEN a ELSE b

Min(a, b) == IF a <= b THEN a ELSE b

Abs(x) == IF x < 0 THEN -x ELSE x

----------------------------------------------------------------------------
(* RebalancePolicy.__init__ *)

\* Mutant of ClampRatio: the [0,1] clamp is missing.
ClampRatio_Unclamped(r) == r

\* max(0.0, min(1.0, r)), r in hundredths
ClampRatio(r) == Max(0, Min(100, r))

\* The constructor arguments the model explores (hundredths): below, inside and above [0,1]
RatioArgs == {-50, 0, 50, 100, 150}

PolicyConstruct(pr, hf) ==
    /\ cfg_partial_ratio = pr
    /\ cfg_hysteresis_fraction = hf
    /\ partial_ratio = ClampRatio(pr)
    /\ hysteresis_fraction = ClampRatio(hf)
    /\ last_action_threshold_used_abs = None
    /\ last_action_side = None
    /\ decide_call = None
    /\ decision = None

----------------------------------------------------------------------------
(* RebalancePolicy.decide *)

\* side_needed = 1 if gap > 0 else -1 if gap < 0 else 0
SideNeeded(gap) == IF gap > 0 THEN 1 ELSE IF gap < 0 THEN -1 ELSE 0

\* Mutant of HysteresisBlocks: the comparison against the required magnitude is not strict.
HysteresisBlocks_NonStrict(gap, lastThr, lastSide, hf) ==
    /\ lastThr # None
    /\ lastSide # None
    /\ SideNeeded(gap) # 0
    /\ SideNeeded(gap) = -lastSide[1]
    /\ 100 * Abs(gap) <= hf * lastThr[1]

\* The hysteresis check: TRUE when decide() returns early with action 'none'.
\* required = hysteresis_fraction * last threshold; abs(gap) < required,
\* both sides multiplied by 100 because hf is in hundredths.
HysteresisBlocks(gap, lastThr, lastSide, hf) ==
    /\ lastThr # None
    /\ lastSide # None
    /\ SideNeeded(gap) # 0
    /\ SideNeeded(gap) = -lastSide[1]
    /\ 100 * Abs(gap) < hf * lastThr[1]

\* Mutant of HardBreach: the hard threshold must be exceeded, not merely reached.
HardBreach_Strict(gap, eff_hard) == Abs(gap) > eff_hard /\ eff_hard > 0

\* abs(gap) >= eff_hard and eff_hard > 0
HardBreach(gap, eff_hard) == Abs(gap) >= eff_hard /\ eff_hard > 0

\* Mutant of SoftBreach: a soft threshold of 0 is breached by every gap.
SoftBreach_NoFloor(gap, eff_soft) == Abs(gap) >= eff_soft

\* abs(gap) >= eff_soft and eff_soft > 0
SoftBreach(gap, eff_soft) == Abs(gap) >= eff_soft /\ eff_soft > 0

\* Mutant of FullResult: the magnitude of the gap is retained instead of eff_hard.
FullResult_RetainsGap(gap, eff_hard) ==
    [action |-> "full", target_trade_base |-> -(100 * gap),
     threshold |-> Some(Abs(gap)), side |-> Some(SideNeeded(gap))]

\* The hard-breach branch: the returned dict and the retained pair after it.
FullResult(gap, eff_hard) ==
    [action |-> "full", target_trade_base |-> -(100 * gap),
     threshold |-> Some(eff_hard), side |-> Some(SideNeeded(gap))]

\* Mutant of PartialResult: the side opposite to the needed one is retained.
PartialResult_OppositeSide(gap, eff_soft, pr) ==
    [action |-> "partial", target_trade_base |-> -(pr * gap),
     threshold |-> Some(eff_soft), side |-> Some(-SideNeeded(gap))]

\* The soft-breach branch: target = -self.partial_ratio * gap (hundredths).
PartialResult(gap, eff_soft, pr) ==
    [action |-> "partial", target_trade_base |-> -(pr * gap),
     threshold |-> Some(eff_soft), side |-> Some(SideNeeded(gap))]

\* Mutant of NoneResult: an idle decision clears the retained pair.
NoneResult_Clears(lastThr, lastSide) ==
    [action |-> "none", target_trade_base |-> 0,
     threshold |-> None, side |-> None]

\* Both 'none' returns: nothing is assigned.
NoneResult(lastThr, lastSide) ==
    [action |-> "none", target_trade_base |-> 0,
     threshold |-> lastThr, side |-> lastSide]

\* The body of decide(): the returned dict together with the retained pair
\* (threshold, side) the call leaves behind.
DecideOutcome(gap, eff_soft, eff_hard, lastThr, lastSide, pr, hf) ==
    IF HysteresisBlocks(gap, lastThr, lastSide, hf)
    THEN NoneResult(lastThr, lastSide)
    ELSE IF HardBreach(gap, eff_hard)
    THEN FullResult(gap, eff_hard)
    ELSE IF SoftBreach(gap, eff_soft)
    THEN PartialResult(gap, eff_soft, pr)
    ELSE NoneResult(lastThr, lastSide)

\* One call policy.decide(gap, eff_soft, eff_hard).
Decide(gap, eff_soft, eff_hard) ==
    LET out == DecideOutcome(gap, eff_soft, eff_hard,
                             last_action_threshold_used_abs, last_action_side,
                             partial_ratio, hysteresis_fraction)
    IN /\ decide_call' = Some([gap |-> gap, eff_soft |-> eff_soft, eff_hard |-> eff_hard,
                               pre_threshold |-> last_action_threshold_used_abs,
                               pre_side |-> last_action_side])
       /\ decision' = Some([action |-> out.action,
                            target_trade_base |-> out.target_trade_base])
       /\ last_action_threshold_used_abs' = out.threshold
       /\ last_action_side' = out.side
       /\ op' = "decide"
       /\ UNCHANGED <<cfg_partial_ratio, cfg_hysteresis_fraction, partial_ratio,
                      hysteresis_fraction>>
       /\ UNCHANGED <<thresholdVars, fillsVars>>
       /\ UNCHANGED <<engineVars, stepVars>>

----------------------------------------------------------------------------
(* Thresholds and RebalancePolicy.compute_effective_thresholds *)

\* Configured soft/hard values the model explores (for 'percent' units they
\* are fractions of the spot notional, as the code uses them: no /100)
MaxCfgThreshold == 5

\* Spot balance in base units and mark price seen by one call
MaxSpotTotal == 2

MaxMarkPrice == 2

\* combined_bias and bias_strength arguments, in halves: -3..3 is [-1.5, 1.5]
BiasArgs == -3 .. 3

StrengthArgs == -1 .. 3

ThresholdsConstruct(units, soft, hard) ==
    /\ th = [units |-> units, soft |-> soft, hard |-> hard]
    /\ eff_call = None
    /\ eff = None

\* _to_base_units: 'base' returns the value; otherwise
\* (value * spot_notional_quote) / max(mark_price, 1e-12).  The model's
\* mark prices are integers >= 1, so max(mark_price, 1e-12) = mark_price, and
\* the notional handed in is balance * mark_price (rebalancer.py:127), so the
\* quotient is exact.
ToBaseUnits(units, value, spot_notional_quote, mark_price) ==
    IF units = "base"
    THEN value
    ELSE (value * spot_notional_quote) \div Max(mark_price, 1)

\* bs = max(0.0, min(1.0, bias_strength)), in halves
ClampStrength(bias_strength) == Max(0, Min(2, bias_strength))

\* cb = max(-1.0, min(1.0, combined_bias)), in halves
ClampBias(combined_bias) == Max(-2, Min(2, combined_bias))

\* base_soft * (1.0 + bs * cb), in eighths
SoftExpansion(base_soft, bs, cb) == base_soft * 2 * (4 + bs * cb)

\* Mutant of HardExpansion: the hard threshold is as elastic as the soft one.
HardExpansion_FullWeight(base_hard, bs, cb) == base_hard * 2 * (4 + bs * cb)

\* base_hard * (1.0 + 0.5 * bs * cb), in eighths
HardExpansion(base_hard, bs, cb) == base_hard * (8 + bs * cb)

\* Mutant of OrderHard: the ordering is not enforced.
OrderHard_NotEnforced(eff_soft, eff_hard) == eff_hard

\* eff_hard = max(eff_soft, eff_hard)
OrderHard(eff_soft, eff_hard) == Max(eff_soft, eff_hard)

\* The value compute_effective_thresholds returns, in eighths of a base unit.
EffectiveThresholds(units, soft, hard, spot_notional_quote, mark_price, combined_bias, bias_strength) ==
    LET base_soft == ToBaseUnits(units, soft, spot_notional_quote, mark_price)
        base_hard == ToBaseUnits(units, hard, spot_notional_quote, mark_price)
        bs == ClampStrength(bias_strength)
        cb == ClampBias(combined_bias)
        eff_soft == Max(0, SoftExpansion(base_soft, bs, cb))
        eff_hard == OrderHard(eff_soft, HardExpansion(base_hard, bs, cb))
    IN [soft |-> eff_soft, hard |-> eff_hard]

\* One call policy.compute_effective_thresholds(...); it changes no field.
ComputeEffectiveThresholds(spot_notional_quote, mark_price, combined_bias, bias_strength) ==
    /\ eff_call' = Some([spot_notional_quote |-> spot_notional_quote,
                         mark_price |-> mark_price,
                         combined_bias |-> combined_bias,
                         bias_strength |-> bias_strength])
    /\ eff' = Some(EffectiveThresholds(th.units, th.soft, th.hard, spot_notional_quote,
                                       mark_price, combined_bias, bias_strength))
    /\ op' = "compute_effective_thresholds"
    /\ UNCHANGED th
    /\ UNCHANGED <<policyVars, fillsVars>>
    /\ UNCHANGED <<engineVars, stepVars>>

----------------------------------------------------------------------------
(* RecentFillsAnchor and its environment: the clock and the exchange *)

\* The clock stops advancing here
MaxTime == 120

\* The exchange reports at most this many executions of the symbol
MaxExecs == 2

\* max_cached, the deque's maxlen (500 by default)
MaxCached == 3

\* limit=100 in the get_executions request
ApiLimit == 100

\* poll_interval_s default of the constructor; SpotRebalancer passes none
DefaultPollInterval == 3

\* Amounts by which the clock advances between two operations
TickSteps == {30}

\* (price, qty) of the executions the exchange produces
ExecKinds == {<<100, 1>>, <<110, 2>>}

\* Constructor argument window_seconds in half seconds: 30 s, 60.5 s and 75 s
WindowArgs == {60, 121, 150}

\* int(x) of a non-negative x given in half seconds
IntOfHalves(x2) == x2 \div 2

\* Mutant of WindowSecondsOf: the 60 s floor is missing.
WindowSecondsOf_NoFloor(w2) == IntOfHalves(w2)

\* self.window_seconds = max(60, int(window_seconds))
WindowSecondsOf(w2) == Max(60, IntOfHalves(w2))

\* self.poll_interval_s = max(1.0, float(poll_interval_s))
PollIntervalOf(p) == Max(1, p)

FillsConstruct(w2, p) ==
    /\ cfg_window_seconds = w2
    /\ window_seconds = WindowSecondsOf(w2)
    /\ poll_interval_s = PollIntervalOf(p)
    /\ fills = << >>
    /\ last_poll_time = 0
    /\ last_exec_id = None
    /\ anchor = None

\* The environment at construction: the clock reads 30 and no execution exists.
EnvInit ==
    /\ now = 30
    /\ execs = << >>

Reverse(s) == [i \in 1 .. Len(s) |-> s[Len(s) + 1 - i]]

\* client.get_executions(limit=100) on success: the most recent executions, newest first.
GetExecutions(history, limit) ==
    LET n == Min(limit, Len(history))
    IN Reverse(SubSeq(history, Len(history) - n + 1, Len(history)))

\* execTime to seconds.  The model's clock is in whole seconds below the
\* 1e12 cut, so the branch float(ts_raw or 0) applies.
TsSec(ts_raw) == ts_raw

\* price <= 0 or qty <= 0 or side not in ("Buy", "Sell")  => the record is skipped
RecordUsable(r) == r.execPrice > 0 /\ r.execQty > 0 /\ r.side \in {"Buy", "Sell"}

\* The "crude duplicate check": same ts, side, qty, price as the last element.
\* exec_id is never None in the model.
IsDuplicateOfLast(fs, r) ==
    /\ Len(fs) > 0
    /\ LET last == fs[Len(fs)]
       IN /\ last.ts = TsSec(r.execTime)
          /\ last.side = r.side
          /\ last.price = r.execPrice
          /\ last.qty = r.execQty

\* deque.append with maxlen: a full deque drops its leftmost element.
DequeAppend(fs, f, maxlen) ==
    IF Len(fs) >= maxlen THEN Append(Tail(fs), f) ELSE Append(fs, f)

\* Fill(ts=ts_sec or now, side, price, qty).  execId is a history label that the
\* program does not store: it names the execution the fill was built from.
FillOf(r, t) ==
    [ts |-> IF TsSec(r.execTime) = 0 THEN t ELSE TsSec(r.execTime),
     side |-> r.side, price |-> r.execPrice, qty |-> r.execQty,
     execId |-> r.execId]

\* The for loop of _fetch_new_fills over records (oldest first), from deque fs.
RECURSIVE ProcessRecords(_, _, _)
ProcessRecords(fs, records, t) ==
    IF records = << >>
    THEN fs
    ELSE LET r == Head(records)
         IN IF ~RecordUsable(r) \/ IsDuplicateOfLast(fs, r)
            THEN ProcessRecords(fs, Tail(records), t)
            ELSE ProcessRecords(DequeAppend(fs, FillOf(r, t), MaxCached), Tail(records), t)

\* self._last_exec_id after the loop: the id of the last record appended, if any.
RECURSIVE LastExecIdAfter(_, _, _)
LastExecIdAfter(fs, records, lastId) ==
    IF records = << >>
    THEN lastId
    ELSE LET r == Head(records)
         IN IF ~RecordUsable(r) \/ IsDuplicateOfLast(fs, r)
            THEN LastExecIdAfter(fs, Tail(records), lastId)
            ELSE LastExecIdAfter(DequeAppend(fs, FillOf(r, 0), MaxCached), Tail(records),
                                 Some(r.execId))

\* _prune_old: pop from the left while the leftmost fill is older than the cutoff.
RECURSIVE PruneOld(_, _)
PruneOld(fs, cutoff) ==
    IF fs # << >> /\ Head(fs).ts < cutoff
    THEN PruneOld(Tail(fs), cutoff)
    ELSE fs

\* The clock advances.
Tick(d) ==
    /\ now + d <= MaxTime
    /\ now' = now + d
    /\ op' = "tick"
    /\ UNCHANGED <<execs, cfg_window_seconds, window_seconds, poll_interval_s,
                   fills, last_poll_time, last_exec_id, anchor>>
    /\ UNCHANGED <<policyVars, thresholdVars>>
    /\ UNCHANGED <<engineVars, stepVars>>

\* The exchange executes one of the account's spot orders.
ExchangeExecution(side, kind) ==
    /\ Len(execs) < MaxExecs
    /\ execs' = Append(execs, [execId |-> Len(execs) + 1, side |-> side,
                               execPrice |-> kind[1], execQty |-> kind[2],
                               execTime |-> now])
    /\ op' = "execution"
    /\ UNCHANGED <<now, cfg_window_seconds, window_seconds, poll_interval_s,
                   fills, last_poll_time, last_exec_id, anchor>>
    /\ UNCHANGED <<policyVars, thresholdVars>>
    /\ UNCHANGED <<engineVars, stepVars>>

\* Mutant of RateLimited: every call queries the exchange.
RateLimited_Never(t) == FALSE

\* if now - self._last_poll_time < self.poll_interval_s: return
RateLimited(t) == t - last_poll_time < poll_interval_s

\* update() = _fetch_new_fills().  ok = FALSE: get_executions raises, returns
\* nothing or returns retCode != 0.
Update(ok) ==
    /\ op' = "update"
    /\ IF RateLimited(now)
       THEN UNCHANGED <<last_poll_time, fills, last_exec_id>>
       ELSE /\ last_poll_time' = now
            /\ IF ~ok
               THEN UNCHANGED <<fills, last_exec_id>>
               ELSE LET records == Reverse(GetExecutions(execs, ApiLimit))
                    IN /\ fills' = PruneOld(ProcessRecords(fills, records, now),
                                            now - window_seconds)
                       /\ last_exec_id' = LastExecIdAfter(fills, records, last_exec_id)
    /\ UNCHANGED <<now, execs, cfg_window_seconds, window_seconds, poll_interval_s, anchor>>
    /\ UNCHANGED <<policyVars, thresholdVars>>
    /\ UNCHANGED <<engineVars, stepVars>>

\* Mutant of InWindow: no fill is filtered by age, pruning is relied on.
InWindow_Always(f, cutoff) == TRUE

\* "if f.ts < cutoff: continue" lets these fills through
InWindow(f, cutoff) == ~(f.ts < cutoff)

\* The for loop of _compute_vwaps with its five accumulators.
RECURSIVE ComputeVwaps(_, _, _)
ComputeVwaps(fs, cutoff, acc) ==
    IF fs = << >>
    THEN acc
    ELSE LET f == Head(fs)
         IN IF ~InWindow(f, cutoff)
            THEN ComputeVwaps(Tail(fs), cutoff, acc)
            ELSE IF f.side = "Buy"
            THEN ComputeVwaps(Tail(fs), cutoff,
                     [acc EXCEPT !.buy_notional = @ + f.price * f.qty,
                                 !.buy_qty = @ + f.qty,
                                 !.net_imbalance_base = @ + f.qty])
            ELSE ComputeVwaps(Tail(fs), cutoff,
                     [acc EXCEPT !.sell_notional = @ + f.price * f.qty,
                                 !.sell_qty = @ + f.qty,
                                 !.net_imbalance_base = @ - f.qty])

ZeroAcc == [buy_notional |-> 0, buy_qty |-> 0, sell_notional |-> 0, sell_qty |-> 0,
            net_imbalance_base |-> 0]

\* Mutant of Vwap: the notional is not divided by the quantity.
Vwap_Unweighted(notional, qty) == IF qty > 0 THEN Some(<<notional, 1>>) ELSE None

\* (notional / qty) if qty > 0 else None; the quotient is kept as the exact
\* fraction <<numerator, denominator>>.
Vwap(notional, qty) == IF qty > 0 THEN Some(<<notional, qty>>) ELSE None

\* sum(1 for f in self.fills if f.ts >= time.time() - self.window_seconds)
SampleCount(fs, cutoff) == Cardinality({i \in 1 .. Len(fs) : fs[i].ts >= cutoff})

\* The dict get_anchor builds from the pruned deque at clock reading t.
AnchorOf(fs, t, window) ==
    LET acc == ComputeVwaps(fs, t - window, ZeroAcc)
    IN [buy_vwap |-> Vwap(acc.buy_notional, acc.buy_qty),
        sell_vwap |-> Vwap(acc.sell_notional, acc.sell_qty),
        net_fill_imbalance_base |-> acc.net_imbalance_base,
        window_s |-> window,
        sample_count |-> SampleCount(fs, t - window)]

\* get_anchor(): prune, then recompute.  The clock readings inside one call
\* are taken as one instant.
GetAnchor ==
    /\ fills' = PruneOld(fills, now - window_seconds)
    /\ anchor' = Some(AnchorOf(fills', now, window_seconds))
    /\ op' = "get_anchor"
    /\ UNCHANGED <<now, execs, cfg_window_seconds, window_seconds, poll_interval_s,
                   last_poll_time, last_exec_id>>
    /\ UNCHANGED <<policyVars, thresholdVars>>
    /\ UNCHANGED <<engineVars, stepVars>>

----------------------------------------------------------------------------
(* SpotExecutionEngine and its environment: the clock and the exchange's    *)
(* order entry.  Times of the engine are in half seconds; quantities are in *)
(* the unit of the caller.  An engine call is modelled step by step, so     *)
(* that the clock can advance while a request is in flight or while the     *)
(* call sleeps:                                                             *)
(*   idle -> loop -> placing -> sleep -> loop ... -> market -> idle         *)

\* time.time() in half seconds
Clock2 == 2 * now + now_half

\* (min_trade_base, max_trade_base) of the configurations explored
TradeLimitArgs == {<<1, 3>>, <<0, 2>>}

\* maker.chase_seconds in half seconds: -1 s, 0 s, 0.5 s and 1.5 s
ChaseArgs == {-2, 0, 1, 3}

\* qty_base handed to the engine
QtyArgs == {-2, 0, 5}

\* best_px handed to maker_then_escalate
PxArgs == {100}

\* ExecutionConfig(...) as built by SpotRebalancer.__init__
EngineConstruct(limits, chase2, post_only, on_soft, on_hard) ==
    /\ now_half = 0
    /\ exec_cfg = [min_trade_base |-> limits[1], max_trade_base |-> limits[2],
                   chase_seconds2 |-> chase2, post_only |-> post_only,
                   allowed_on_soft |-> on_soft, allowed_on_hard |-> on_hard]
    /\ eng_pc = "idle"
    /\ eng_call = None
    /\ eng_deadline = 0
    /\ eng_wake = 0
    /\ eng_ret = None
    /\ orders = << >>

\* Mutant of ClampQty: the upper limit is not applied.
ClampQty_NoUpper(qty_base) == Max(exec_cfg.min_trade_base, Abs(qty_base))

\* _clamp_qty: max(min_trade_base, min(max_trade_base, abs(qty_base)))
ClampQty(qty_base) ==
    Max(exec_cfg.min_trade_base, Min(exec_cfg.max_trade_base, Abs(qty_base)))

\* The request client.place_market_order(side=side, qty=q) as it leaves the program
MarketOrder(side, q) ==
    [type |-> "Market", side |-> side, qty |-> q, price |-> None, tif |-> None,
     at |-> Clock2, status |-> "pending"]

\* timeInForce='PostOnly' if self.cfg.maker.post_only else 'GTC'
TimeInForce == IF exec_cfg.post_only THEN "PostOnly" ELSE "GTC"

\* The request client.place_order(orderType='Limit', qty=q, price=best_px, ...)
LimitOrder(side, q, best_px) ==
    [type |-> "Limit", side |-> side, qty |-> q, price |-> Some(best_px),
     tif |-> Some(TimeInForce), at |-> Clock2, status |-> "pending"]

\* The record of an engine call: its arguments, the clamped quantity and the entry time
EngineCall(fn, side, qty_base, best_px, allow_taker) ==
    [fn |-> fn, side |-> side, qty_base |-> qty_base, best_px |-> best_px,
     allow_taker |-> allow_taker, q |-> ClampQty(qty_base), entered |-> Clock2]

\* market(side, qty_base) up to the point where the request is in flight
MarketEnter(side, qty_base) ==
    LET q == ClampQty(qty_base) IN
    /\ eng_call' = Some(EngineCall("market", side, qty_base, None, FALSE))
    /\ IF q <= 0
       THEN /\ eng_pc' = "idle"
            /\ eng_ret' = Some(FALSE)
            /\ orders' = << >>
       ELSE /\ eng_pc' = "market"
            /\ eng_ret' = None
            /\ orders' = <<MarketOrder(side, q)>>
    /\ UNCHANGED <<now_half, exec_cfg, eng_deadline, eng_wake>>

\* Mutant of Deadline: the chase duration is not added.
Deadline_NoChase(t) == t

\* deadline = time.time() + max(0.0, float(self.cfg.maker.chase_seconds))
Deadline(t) == t + Max(0, exec_cfg.chase_seconds2)

\* maker_then_escalate(side, qty_base, best_px, allow_taker) up to the first loop test
MakerEnter(side, qty_base, best_px, allow_taker) ==
    LET q == ClampQty(qty_base) IN
    /\ eng_call' = Some(EngineCall("maker_then_escalate", side, qty_base,
                                   Some(best_px), allow_taker))
    /\ orders' = << >>
    /\ IF q <= 0
       THEN /\ eng_pc' = "idle"
            /\ eng_ret' = Some(FALSE)
            /\ UNCHANGED eng_deadline
       ELSE /\ eng_pc' = "loop"
            /\ eng_ret' = None
            /\ eng_deadline' = Deadline(Clock2)
    /\ UNCHANGED <<now_half, exec_cfg, eng_wake>>

\* Mutant of ChaseOpen: the deadline itself still counts as before the deadline.
ChaseOpen_Inclusive(t, deadline) == t <= deadline

\* while time.time() < deadline and not placed
ChaseOpen(t, deadline) == t < deadline

\* Mutant of TakerFallback: the market fallback ignores allow_taker.
TakerFallback_Always(allow_taker) == TRUE

\* if allow_taker: return self.market(side, q)
TakerFallback(allow_taker) == allow_taker

\* Mutant of SleepUntil: the loop does not sleep between two placements.
SleepUntil_NoSleep(t) == t

\* time.sleep(0.5) returns no earlier than half a second later
SleepUntil(t) == t + 1

\* The last request of the log answered by the exchange
Answered(log, accepted) ==
    [log EXCEPT ![Len(log)].status = IF accepted THEN "accepted" ELSE "rejected"]

\* bool(resp and resp.get('retCode') == 0): the client returns None on an
\* exception and the exchange's answer otherwise
RespOk(accepted) == accepted

\* An engine call can begin while the clock leaves room for its whole chase
CanEnter == Deadline(Clock2) <= MaxChaseClock

Market(side, qty_base) ==
    /\ eng_pc = "idle"
    /\ step_pc = "idle"
    /\ CanEnter
    /\ MarketEnter(side, qty_base)
    /\ op' = "market"
    /\ UNCHANGED <<policyVars, thresholdVars, fillsVars, stepVars>>

MakerThenEscalate(side, qty_base, best_px, allow_taker) ==
    /\ eng_pc = "idle"
    /\ step_pc = "idle"
    /\ CanEnter
    /\ MakerEnter(side, qty_base, best_px, allow_taker)
    /\ op' = "maker_then_escalate"
    /\ UNCHANGED <<policyVars, thresholdVars, fillsVars, stepVars>>

\* One evaluation of the while condition and what follows it without waiting:
\* the next limit request, or the statements after the loop.
LoopTest ==
    /\ eng_pc = "loop"
    /\ LET c == eng_call[1] IN
       IF ChaseOpen(Clock2, eng_deadline)
       THEN /\ orders' = Append(orders, LimitOrder(c.side, c.q, c.best_px[1]))
            /\ eng_pc' = "placing"
            /\ UNCHANGED eng_ret
       ELSE IF TakerFallback(c.allow_taker)
            THEN IF ClampQty(c.q) <= 0
                 THEN /\ eng_pc' = "idle"
                      /\ eng_ret' = Some(FALSE)
                      /\ UNCHANGED orders
                 ELSE /\ orders' = Append(orders, MarketOrder(c.side, ClampQty(c.q)))
                      /\ eng_pc' = "market"
                      /\ UNCHANGED eng_ret
            ELSE /\ eng_pc' = "idle"
                 /\ eng_ret' = Some(FALSE)
                 /\ UNCHANGED orders
    /\ op' = "loop_test"
    /\ UNCHANGED <<now_half, exec_cfg, eng_call, eng_deadline, eng_wake>>
    /\ UNCHANGED <<policyVars, thresholdVars, fillsVars, stepVars>>

\* client.place_order returns: placed = bool(resp and retCode == 0)
LimitResponse(accepted) ==
    /\ eng_pc = "placing"
    /\ orders' = Answered(orders, accepted)
    /\ IF RespOk(accepted)
       THEN /\ eng_pc' = "idle"
            /\ eng_ret' = Some(TRUE)
            /\ UNCHANGED eng_wake
       ELSE /\ eng_pc' = "sleep"
            /\ eng_wake' = SleepUntil(Clock2)
            /\ UNCHANGED eng_ret
    /\ op' = "limit_response"
    /\ UNCHANGED <<now_half, exec_cfg, eng_call, eng_deadline>>
    /\ UNCHANGED <<policyVars, thresholdVars, fillsVars, stepVars>>

\* time.sleep(0.5) returns
Wake ==
    /\ eng_pc = "sleep"
    /\ Clock2 >= eng_wake
    /\ eng_pc' = "loop"
    /\ op' = "wake"
    /\ UNCHANGED <<now_half, exec_cfg, eng_call, eng_deadline, eng_wake, eng_ret, orders>>
    /\ UNCHANGED <<policyVars, thresholdVars, fillsVars, stepVars>>

\* client.place_market_order returns
MarketResponse(accepted) ==
    /\ eng_pc = "market"
    /\ orders' = Answered(orders, accepted)
    /\ eng_pc' = "idle"
    /\ eng_ret' = Some(RespOk(accepted))
    /\ op' = "market_response"
    /\ UNCHANGED <<now_half, exec_cfg, eng_call, eng_deadline, eng_wake>>
    /\ UNCHANGED <<policyVars, thresholdVars, fillsVars, stepVars>>

\* Half a second passes.  The clock is explored up to MaxChaseClock, and
\* beyond it as far as a sleeping call needs to wake up.
HalfTick ==
    /\ \/ Clock2 < MaxChaseClock
       \/ eng_pc = "sleep" /\ Clock2 < eng_wake
    /\ IF now_half = 0
       THEN now_half' = 1 /\ now' = now
       ELSE now_half' = 0 /\ now' = now + 1
    /\ op' = "half_tick"
    /\ UNCHANGED <<execs, cfg_window_seconds, window_seconds, poll_interval_s,
                   fills, last_poll_time, last_exec_id, anchor>>
    /\ UNCHANGED <<exec_cfg, eng_pc, eng_call, eng_deadline, eng_wake, eng_ret, orders>>
    /\ UNCHANGED <<policyVars, thresholdVars, stepVars>>

----------------------------------------------------------------------------
(* SpotRebalancer: __init__, _combined_bias and step, with the environment  *)
(* step() reads: the websocket price and the account's exposure.            *)
(* In step() the gap is a whole number of base units; the effective         *)
(* thresholds are in eighths, so decide() is handed the gap in eighths, and *)
(* the target, the order quantity and the trade limits are in 1/800 of a    *)
(* base unit.  _last_soft_wait_start is a clock reading in half seconds.    *)

\* The rebalancer section of cfg as read by step(); weights, override and strength in halves
StepCfg(desired, edge_bps, max_wait, mode, manual2, w_ema2, w_anchor2, strength2) ==
    [desired_net_delta_base |-> desired, edge_bps_soft |-> edge_bps,
     max_wait_s_on_soft |-> max_wait, mode |-> mode, manual_override2 |-> manual2,
     w_ema2 |-> w_ema2, w_anchor2 |-> w_anchor2, strength2 |-> strength2]

StepConstruct(c) ==
    /\ step_cfg = c
    /\ ws_price = None
    /\ exposure = [spot |-> 0, futures |-> 0]
    /\ soft_wait_start = None
    /\ last_poll_half = 0
    /\ loop_wake = 0
    /\ step_pc = "idle"
    /\ step_rec = None

\* A configuration of step(): edge of 10 bps, one second of soft wait, the
\* default weights 0.5 and 0.5, strength 0.5
PlainStepCfg == StepCfg(0, 10, 1, "ema", 0, 1, 1, 1)

\* The engine with limits of 1/8 and 3 base units and a chase of half a second
PlainEngine == EngineConstruct(<<100, 2400>>, 1, TRUE, FALSE, TRUE)

\* (taker.allowed_on_soft, taker.allowed_on_hard): the default and its opposite
TakerArgs == {<<FALSE, TRUE>>, <<TRUE, FALSE>>}

\* What the account executed before the rebalancer started: nothing, or one
\* buy or one sell of 1 unit at 100, one second before
EarlierExecs ==
    {<< >>} \cup {<<[execId |-> 1, side |-> side, execPrice |-> 100, execQty |-> 1,
                     execTime |-> 29]>> : side \in {"Buy", "Sell"}}

\* ws.get_latest_price() of the runs explored
PriceArgs == {99, 101}

\* (spot balance, signed futures position) of the runs explored
ExposureArgs == {<<0, 0>>, <<2, 0>>, <<5, 0>>, <<0, 2>>}

\* get_bias() of an EmaTrendBias on which initialize() was never called
UnseededEmaBias == 0

\* ema_b in halves: the EMA component, or the manual override
EmaComponent2(c) ==
    IF c.mode = "ema" THEN 2 * UnseededEmaBias
    ELSE IF c.mode = "manual" THEN c.manual_override2
    ELSE 0

\* price >= vwap + edge_bps / 1e4 * vwap, the VWAP being num / den
SellFavourable(price, vwap, bps) == price * vwap[2] * 10000 >= vwap[1] * (10000 + bps)

\* price <= vwap - edge_bps / 1e4 * vwap
BuyFavourable(price, vwap, bps) == price * vwap[2] * 10000 <= vwap[1] * (10000 - bps)

\* anchor_bias of _combined_bias: +1, -1 or 0
AnchorBias(side_needed, price, a, bps) ==
    IF side_needed = 1 /\ a.buy_vwap # None
    THEN (IF SellFavourable(price, a.buy_vwap[1], bps) THEN 1 ELSE -1)
    ELSE IF side_needed = -1 /\ a.sell_vwap # None
    THEN (IF BuyFavourable(price, a.sell_vwap[1], bps) THEN 1 ELSE -1)
    ELSE 0

\* w_ema * ema_b + w_anchor * anchor_bias clamped to [-1, 1], in halves.  The
\* division is exact for the configurations explored.
CombinedBias2(c, side_needed, price, a) ==
    LET sum4 == c.w_ema2 * EmaComponent2(c)
                + 2 * c.w_anchor2 * AnchorBias(side_needed, price, a, c.edge_bps_soft)
    IN Max(-2, Min(2, sum4 \div 2))

\* _fetch_new_fills at clock reading Clock2: rate limit, then the poll
PollDue == ~(Clock2 - (2 * last_poll_time + last_poll_half) < 2 * poll_interval_s)

\* f.ts < time.time() - window for a whole-second f.ts
CutoffNow == now + now_half - window_seconds

FillsAfterUpdate(ok) ==
    IF PollDue /\ ok
    THEN PruneOld(ProcessRecords(fills, Reverse(GetExecutions(execs, ApiLimit)), now),
                  CutoffNow)
    ELSE fills

LastExecIdAfterUpdate(ok) ==
    IF PollDue /\ ok
    THEN LastExecIdAfter(fills, Reverse(GetExecutions(execs, ApiLimit)), last_exec_id)
    ELSE last_exec_id

\* snap.net_base_delta - snap.desired_net_delta_base, e being (spot, futures)
DeltaGap(e) == e[1] - e[2] - step_cfg.desired_net_delta_base

\* Mutant of OrderSide: the sides are swapped.
OrderSide_Swapped(target) == IF target < 0 THEN "Buy" ELSE "Sell"

\* side = "Sell" if target < 0 else "Buy"
OrderSide(target) == IF target < 0 THEN "Sell" ELSE "Buy"

\* anchor_ok of the soft-breach gate
GateAnchorOk(side, price, a, bps) ==
    IF side = "Sell" /\ a.buy_vwap # None
    THEN SellFavourable(price, a.buy_vwap[1], bps)
    ELSE IF side = "Buy" /\ a.sell_vwap # None
    THEN BuyFavourable(price, a.sell_vwap[1], bps)
    ELSE TRUE

\* Mutant of GateOpen: the elapsed wait does not open the gate.
GateOpen_AnchorOnly(anchor_ok, waited2, max_wait) == anchor_ok

\* if anchor_ok or waited >= max_wait
GateOpen(anchor_ok, waited2, max_wait) == anchor_ok \/ waited2 >= 2 * max_wait

\* Mutant of WaitStart: every soft breach restarts the wait.
WaitStart_Restarted(start, t) == Some(t)

\* if self._last_soft_wait_start is None: self._last_soft_wait_start = now
WaitStart(start, t) == IF start = None THEN Some(t) ELSE start

\* Mutant of Waited: the wait is never seen to have lasted.
Waited_Nothing(started, t) == 0

\* waited = now - self._last_soft_wait_start, in half seconds
Waited(started, t) == t - started[1]

\* What one step() computes from the price and the exposure it reads, up to
\* the call of the engine
StepPlan(ok, price, e) ==
    LET gap == DeltaGap(e)
        fs == PruneOld(FillsAfterUpdate(ok), CutoffNow)
        a == AnchorOf(fs, now + now_half, window_seconds)
        cb2 == CombinedBias2(step_cfg, SideNeeded(gap), price, a)
        ef == EffectiveThresholds(th.units, th.soft, th.hard, e[1] * price,
                                  price, cb2, step_cfg.strength2)
        out == DecideOutcome(8 * gap, ef.soft, ef.hard, last_action_threshold_used_abs,
                             last_action_side, partial_ratio, hysteresis_fraction)
        side == OrderSide(out.target_trade_base)
        started == WaitStart(soft_wait_start, Clock2)
        waited2 == Waited(started, Clock2)
        anchor_ok == GateAnchorOk(side, price, a, step_cfg.edge_bps_soft)
    IN [price |-> price, gap |-> gap, fills |-> fs, anchor |-> a, combined_bias |-> cb2,
        eff |-> ef, out |-> out, side |-> side, qty |-> Abs(out.target_trade_base),
        started |-> started, waited2 |-> waited2, anchor_ok |-> anchor_ok,
        outcome |-> IF out.action = "none" THEN "none"
                    ELSE IF out.action = "full" THEN "full"
                    ELSE IF GateOpen(anchor_ok, waited2, step_cfg.max_wait_s_on_soft)
                    THEN "maker" ELSE "defer"]

\* History: what the step before decided on, and what its engine call returned
PreviousStep ==
    IF step_rec = None THEN None
    ELSE Some([gap |-> step_rec[1].gap, eff_soft |-> step_rec[1].eff_soft,
               eff_hard |-> step_rec[1].eff_hard, action |-> step_rec[1].action,
               ret |-> eng_ret])

\* The history record of a step that reached decide()
StepRecord(p) ==
    [outcome |-> p.outcome, price |-> p.price, gap |-> p.gap,
     eff_soft |-> p.eff.soft, eff_hard |-> p.eff.hard,
     pre_threshold |-> last_action_threshold_used_abs, pre_side |-> last_action_side,
     pre_wait |-> soft_wait_start, action |-> p.out.action,
     target |-> p.out.target_trade_base, side |-> p.side, qty |-> p.qty,
     anchor_ok |-> p.anchor_ok, waited2 |-> p.waited2, at |-> Clock2,
     prev |-> PreviousStep]

\* The history record of a step that found the gap at zero
ZeroGapRecord(price) ==
    [outcome |-> "zero_gap", price |-> price, gap |-> 0, eff_soft |-> 0, eff_hard |-> 0,
     pre_threshold |-> last_action_threshold_used_abs, pre_side |-> last_action_side,
     pre_wait |-> soft_wait_start, action |-> "none", target |-> 0, side |-> "Buy",
     qty |-> 0, anchor_ok |-> TRUE, waited2 |-> 0, at |-> Clock2,
     prev |-> PreviousStep]

\* update() as step() calls it
StepUpdate(ok) ==
    /\ last_poll_time' = IF PollDue THEN now ELSE last_poll_time
    /\ last_poll_half' = IF PollDue THEN now_half ELSE last_poll_half
    /\ last_exec_id' = LastExecIdAfterUpdate(ok)
    /\ UNCHANGED <<now, execs, cfg_window_seconds, window_seconds, poll_interval_s>>

\* The runner's loop: self.rebalancer.step(); time.sleep(0.5)
LoopSleep(t) == t + 1

\* A step() that does not call the engine: the log of requests of this step
\* is empty and the engine's locals are out of scope
EngineNotCalled ==
    /\ eng_call' = None
    /\ eng_ret' = None
    /\ orders' = << >>
    /\ eng_deadline' = 0
    /\ eng_wake' = 0
    /\ UNCHANGED <<now_half, exec_cfg, eng_pc>>

\* step() from its first statement to the point where it waits for the
\* engine, or to its return when it does not call the engine.  price is what
\* ws.get_latest_price() returns (Optional), e the (spot, futures) exposure
\* the exchange reports; ok = FALSE: the executions poll fails.  The clock
\* readings and the exchange reads of this part of one step are taken as one
\* instant.
StepBegin(ok, price, e) ==
    /\ step_pc = "idle"
    /\ eng_pc = "idle"
    /\ Clock2 >= loop_wake
    /\ CanEnter
    /\ op' = "step"
    /\ ws_price' = price
    /\ UNCHANGED <<step_cfg, th, unitVars>>
    /\ UNCHANGED <<cfg_partial_ratio, cfg_hysteresis_fraction, partial_ratio,
                   hysteresis_fraction>>
    /\ IF price = None
       THEN /\ loop_wake' = LoopSleep(Clock2)
            /\ UNCHANGED <<fillsVars, engineVars, eff_call, eff, decide_call, decision,
                           last_action_threshold_used_abs, last_action_side, exposure,
                           soft_wait_start, last_poll_half, step_pc, step_rec>>
       ELSE IF SideNeeded(DeltaGap(e)) = 0
       THEN /\ StepUpdate(ok)
            /\ exposure' = [spot |-> e[1], futures |-> e[2]]
            /\ fills' = FillsAfterUpdate(ok)
            /\ soft_wait_start' = None
            /\ step_rec' = Some(ZeroGapRecord(price[1]))
            /\ loop_wake' = LoopSleep(Clock2)
            /\ EngineNotCalled
            /\ UNCHANGED <<anchor, eff_call, eff, decide_call, decision,
                           last_action_threshold_used_abs, last_action_side, step_pc>>
       ELSE LET p == StepPlan(ok, price[1], e) IN
            /\ StepUpdate(ok)
            /\ exposure' = [spot |-> e[1], futures |-> e[2]]
            /\ fills' = p.fills
            /\ anchor' = Some(p.anchor)
            /\ eff_call' = Some([spot_notional_quote |-> e[1] * p.price,
                                 mark_price |-> p.price,
                                 combined_bias |-> p.combined_bias,
                                 bias_strength |-> step_cfg.strength2])
            /\ eff' = Some(p.eff)
            /\ decide_call' = Some([gap |-> 8 * p.gap, eff_soft |-> p.eff.soft,
                                    eff_hard |-> p.eff.hard,
                                    pre_threshold |-> last_action_threshold_used_abs,
                                    pre_side |-> last_action_side])
            /\ decision' = Some([action |-> p.out.action,
                                 target_trade_base |-> p.out.target_trade_base])
            /\ last_action_threshold_used_abs' = p.out.threshold
            /\ last_action_side' = p.out.side
            /\ step_rec' = Some(StepRecord(p))
            /\ soft_wait_start' = IF p.outcome = "none" THEN None
                                  ELSE IF p.outcome = "full" THEN soft_wait_start
                                  ELSE p.started
            /\ step_pc' = IF p.outcome \in {"full", "maker"} THEN p.outcome ELSE "idle"
            /\ loop_wake' = IF p.outcome \in {"full", "maker"} THEN loop_wake
                            ELSE LoopSleep(Clock2)
            /\ IF p.outcome = "full"
               THEN MarketEnter(p.side, p.qty)
               ELSE IF p.outcome = "maker"
               THEN MakerEnter(p.side, p.qty, p.price, exec_cfg.allowed_on_soft)
               ELSE EngineNotCalled

\* The engine has returned: self._last_soft_wait_start = None, and step() returns
StepFinish ==
    /\ step_pc # "idle"
    /\ eng_pc = "idle"
    /\ soft_wait_start' = None
    /\ step_pc' = "idle"
    /\ loop_wake' = LoopSleep(Clock2)
    /\ op' = "step_done"
    /\ UNCHANGED <<step_cfg, ws_price, exposure, last_poll_half, step_rec>>
    /\ UNCHANGED <<policyVars, thresholdVars, fillsVars, engineVars, unitVars>>

----------------------------------------------------------------------------
(* DeltaEngine: the spot balance, the signed futures position and their     *)
(* difference, read from the exchange's answers (delta_engine.py:19-76).    *)
(* Quantities are whole base units.                                         *)

\* The longest list of coin entries in a balance answer
MaxEntries == 2

\* self.base_symbol, and the quote coin of the same wallet
BaseSymbol == "BTC"
QuoteSymbol == "USDT"

\* A field of an answer: a numeric string, absent (or empty), or a string that
\* float() rejects
NumField(v) == [k |-> "num", v |-> v]
MissingField == [k |-> "missing", v |-> 0]
BadField == [k |-> "bad", v |-> 0]

WalletFields == {NumField(1), NumField(2), MissingField, BadField}

\* The coin entries of result.list[*].coin[*], in the order the loops visit them
CoinEntries == [coin : {BaseSymbol, QuoteSymbol}, walletBalance : WalletFields]

SeqsUpTo(S, n) == UNION {[1..k -> S] : k \in 0..n}

\* What client.get_coin_balance can do: raise, return None, answer with an
\* error code, or answer with coin entries
FailureKinds == {"raise", "null", "error"}

BalanceResponses ==
    {[kind |-> k, coins |-> << >>] : k \in FailureKinds}
        \cup {[kind |-> "ok", coins |-> c] : c \in SeqsUpTo(CoinEntries, MaxEntries)}

\* The first position of result.list: size, side and markPrice
Positions ==
    [size : {NumField(0), NumField(2), MissingField, BadField},
     side : {"Buy", "Sell", "None"},
     markPrice : {NumField(100), MissingField, BadField}]

PositionResponses ==
    {[kind |-> k, list |-> << >>] : k \in FailureKinds}
        \cup {[kind |-> "ok", list |-> l] : l \in {<< >>} \cup {<<q>> : q \in Positions}}

\* The mark_price argument of snapshot()
MarkPriceArgs == {None, Some(100)}

\* The loops of get_spot_base from entry i on, bal being the sum so far:
\* v = coin.get('walletBalance') or '0'; bal += float(v or 0). When float()
\* raises, `except Exception: pass` leaves the loops and `return bal` returns
\* the sum accumulated so far.
RECURSIVE SumWallet(_, _, _)
SumWallet(coins, i, bal) ==
    IF i > Len(coins) THEN bal
    ELSE IF coins[i].coin # BaseSymbol THEN SumWallet(coins, i + 1, bal)
    ELSE IF coins[i].walletBalance.k = "bad" THEN bal
    ELSE SumWallet(coins, i + 1, bal + coins[i].walletBalance.v)

\* get_spot_base(): 0.0 unless the answer is there with retCode 0
GetSpotBase(resp) ==
    IF resp.kind # "ok" THEN 0 ELSE SumWallet(resp.coins, 1, 0)

\* signed = size if side == 'Buy' else -size if side == 'Sell' else 0.0
SignedSize(size, side) ==
    IF side = "Buy" THEN size ELSE IF side = "Sell" THEN 0 - size ELSE 0

\* px = mark_price, or float(pos.get('markPrice') or 0) with 0.0 on an exception
MarkPx(pos, mark_price) ==
    IF mark_price # None THEN mark_price[1]
    ELSE IF pos.markPrice.k = "num" THEN pos.markPrice.v ELSE 0

\* get_futures_base(mark_price): the signed size of the first position, 0.0
\* without an answer, without a position, on an exception or without a
\* positive price
GetFuturesBase(resp, mark_price) ==
    IF resp.kind # "ok" \/ resp.list = << >> THEN 0
    ELSE LET pos == resp.list[1] IN
         IF pos.size.k = "bad" THEN 0
         ELSE LET signed == SignedSize(pos.size.v, pos.side) IN
              IF signed = 0 THEN 0
              ELSE IF MarkPx(pos, mark_price) <= 0 THEN 0
              ELSE signed

\* snapshot(mark_price): the DeltaSnapshot
Snapshot(balance, position, mark_price) ==
    LET spot_base == GetSpotBase(balance)
        futures_base == GetFuturesBase(position, mark_price)
    IN [spot_base |-> spot_base,
        futures_base |-> futures_base,
        net_base_delta |-> spot_base - futures_base,
        desired_net_delta_base |-> step_cfg.desired_net_delta_base]

\* What one snapshot() is given: the answers to its two queries and its argument
SnapshotArgs ==
    [balance : BalanceResponses, position : PositionResponses, mark_price : MarkPriceArgs]

\* One call of snapshot() with the answers the exchange gives to its two queries
SnapshotCall ==
    /\ snap_call # None
    /\ snap' = Some(Snapshot(snap_call[1].balance, snap_call[1].position,
                             snap_call[1].mark_price))
    /\ op' = "snapshot"
    /\ UNCHANGED <<policyVars, thresholdVars, fillsVars, engineVars, stepOwnVars, snap_call>>
    /\ UNCHANGED <<emaVars, urgency, poll_call, lateVars>>

\* DeltaEngine.__init__ keeps no state of its own; no snapshot has been taken
DeltaConstruct ==
    /\ snap_call = None
    /\ snap = None

----------------------------------------------------------------------------
(* EmaTrendBias: two exponential moving averages of the closes and the bias *)
(* read from them (trend_bias.py:13-86). The averages, the slope and the    *)
(* bias are exact fractions <<numerator, denominator>> in lowest terms with *)
(* a positive denominator.                                                  *)

\* The longest list of closes handed to initialize()
MaxCloses == 3

\* The most calls of on_closed_candle() in one run
MaxCandleCalls == 2

\* The close timestamps of the candles: 1 .. MaxCandleTs
MaxCandleTs == 2

RECURSIVE GCD(_, _)
GCD(a, b) == IF b = 0 THEN a ELSE GCD(b, a % b)

\* n / d in lowest terms, d # 0
Frac(n, d) ==
    LET g == GCD(Abs(n), Abs(d))
    IN IF d > 0 THEN <<n \div g, d \div g>> ELSE <<(0 - n) \div g, (0 - d) \div g>>

Whole(n) == <<n, 1>>

\* EmaConfig(fast_period, slow_period, slope_lookback_s, trend_threshold_pct)
EmaCfg(fast_period, slow_period, trend_threshold_pct) ==
    [fast_period |-> fast_period, slow_period |-> slow_period,
     trend_threshold_pct |-> trend_threshold_pct]

\* Periods 1 and 3 (smoothing factors 1 and 1/2), the default threshold 0.0
PlainEmaCfg == EmaCfg(1, 3, 0)

\* EmaTrendBias.__init__: every field None
EmaConstruct(c) ==
    /\ ema_cfg = c
    /\ ema = [ema_fast |-> None, ema_slow |-> None, prev_ema_fast |-> None,
              prev_ema_slow |-> None, last_close |-> None, last_ts |-> None]
    /\ candle_call = None
    /\ candles_taken = 0
    /\ bias_call = None
    /\ ema_bias = None

\* The closes of the candles
CloseArgs == {-100, 0, 100}

\* p * a + e * (1 - a) with a = 2 / (period + 1)
EmaStep(e, p, period) ==
    Frac(2 * p * e[2] + (period - 1) * e[1], (period + 1) * e[2])

RECURSIVE SumFirst(_, _)
SumFirst(closes, n) ==
    IF n = 0 THEN 0 ELSE closes[n] + SumFirst(closes, n - 1)

\* seed(period): sum(closes[:period]) / period
Seed(closes, period) == Frac(SumFirst(closes, period), period)

\* The loop of initialize() over closes[i:], e being the average so far
RECURSIVE EmaOver(_, _, _, _)
EmaOver(e, closes, i, period) ==
    IF i > Len(closes) THEN e
    ELSE EmaOver(EmaStep(e, closes[i], period), closes, i + 1, period)

\* The number of closes initialize() needs
SeedLength == Max(ema_cfg.fast_period, ema_cfg.slow_period)

\* initialize(closes): nothing with too few closes; otherwise both averages are
\* seeded with the mean of their first closes and run over the closes after
\* the first max(fast_period, slow_period)
Initialize(closes) ==
    /\ ema.ema_fast = None
    /\ candle_call = None
    /\ ema' = IF Len(closes) < SeedLength THEN ema
              ELSE [ema EXCEPT
                       !.ema_fast = Some(EmaOver(Seed(closes, ema_cfg.fast_period), closes,
                                                 SeedLength + 1, ema_cfg.fast_period)),
                       !.ema_slow = Some(EmaOver(Seed(closes, ema_cfg.slow_period), closes,
                                                 SeedLength + 1, ema_cfg.slow_period))]
    /\ op' = "initialize"
    /\ UNCHANGED <<ema_cfg, candle_call, candles_taken, bias_call, ema_bias>>
    /\ UNCHANGED <<policyVars, thresholdVars, fillsVars, engineVars, stepOwnVars, deltaVars,
                   urgency, poll_call, lateVars>>

Seeded == ema.ema_fast # None /\ ema.ema_slow # None

\* Mutant of AfterCandle: an unseeded estimator seeds both averages with the
\* first close it is given.
AfterCandle_SeedsItself(close_price, close_ts_ms) ==
    [ema_fast |-> Some(IF Seeded THEN EmaStep(ema.ema_fast[1], close_price, ema_cfg.fast_period)
                       ELSE Whole(close_price)),
     ema_slow |-> Some(IF Seeded THEN EmaStep(ema.ema_slow[1], close_price, ema_cfg.slow_period)
                       ELSE Whole(close_price)),
     prev_ema_fast |-> ema.ema_fast,
     prev_ema_slow |-> ema.ema_slow,
     last_close |-> Some(close_price),
     last_ts |-> Some(close_ts_ms)]

\* The state on_closed_candle(close_price, close_ts_ms) leaves: unchanged when
\* unseeded; otherwise the averages move towards the close, whatever the
\* timestamp, and the previous averages, the close and the timestamp are kept
AfterCandle(close_price, close_ts_ms) ==
    IF ~Seeded THEN ema
    ELSE [ema_fast |-> Some(EmaStep(ema.ema_fast[1], close_price, ema_cfg.fast_period)),
          ema_slow |-> Some(EmaStep(ema.ema_slow[1], close_price, ema_cfg.slow_period)),
          prev_ema_fast |-> ema.ema_fast,
          prev_ema_slow |-> ema.ema_slow,
          last_close |-> Some(close_price),
          last_ts |-> Some(close_ts_ms)]

\* on_closed_candle(close_price, close_ts_ms)
OnClosedCandle(close_price, close_ts_ms) ==
    /\ candles_taken < MaxCandleCalls
    /\ candle_call' = Some([close_price |-> close_price, close_ts_ms |-> close_ts_ms,
                            pre |-> ema])
    /\ candles_taken' = IF Seeded THEN candles_taken + 1 ELSE candles_taken
    /\ ema' = AfterCandle(close_price, close_ts_ms)
    /\ op' = "on_closed_candle"
    /\ UNCHANGED <<ema_cfg, bias_call, ema_bias>>
    /\ UNCHANGED <<policyVars, thresholdVars, fillsVars, engineVars, stepOwnVars, deltaVars,
                   urgency, poll_call, lateVars>>

\* The guard of the trend component: self._ema_slow > 0
TrendUsable(slow) == slow[1] > 0

\* trend: the sign of diff_pct = (fast - slow) / slow * 100 when
\* |diff_pct| >= trend_threshold_pct (-1 when diff_pct is 0), else 0
Trend(fast, slow, threshold_pct) ==
    IF ~TrendUsable(slow) THEN 0
    ELSE LET diff == 100 * (fast[1] * slow[2] - slow[1] * fast[2])
             base == fast[2] * slow[1]
         IN IF Abs(diff) >= threshold_pct * Abs(base)
            THEN (IF (diff > 0) = (base > 0) /\ diff # 0 THEN 1 ELSE -1)
            ELSE 0

\* The guard of the slope component: prev_ema_fast is not None and > 0
SlopeUsable_AnyPrev(prev) == prev # None
SlopeUsable(prev) == prev # None /\ prev[1][1] > 0

\* slope: (fast - prev) / prev * 1000 clipped into [-1, 1]
Slope(fast, prev) ==
    IF ~SlopeUsable(prev) THEN Whole(0)
    ELSE LET n == 1000 * (fast[1] * prev[1][2] - prev[1][1] * fast[2])
             d == fast[2] * prev[1][1]
         IN IF d = 0 THEN Whole(0)
            ELSE LET r == Frac(n, d)
                 IN IF r[1] >= r[2] THEN Whole(1)
                    ELSE IF r[1] <= 0 - r[2] THEN Whole(-1)
                    ELSE r

\* The clamp of get_bias into [-1, 1]
ClampUnit(f) ==
    IF f[1] > f[2] THEN Whole(1) ELSE IF f[1] < 0 - f[2] THEN Whole(-1) ELSE f

\* get_bias(current_price, delta_sign_needed): 0.0 when unseeded, otherwise
\* 0.6 * (-trend * d) + 0.4 * (-slope * d), clamped
GetBiasResult(current_price, delta_sign_needed) ==
    IF ~Seeded THEN [trend |-> 0, slope |-> Whole(0), bias |-> Whole(0)]
    ELSE LET trend == Trend(ema.ema_fast[1], ema.ema_slow[1], ema_cfg.trend_threshold_pct)
             slope == Slope(ema.ema_fast[1], ema.prev_ema_fast)
             raw == Frac((0 - delta_sign_needed) * (3 * trend * slope[2] + 2 * slope[1]),
                         5 * slope[2])
         IN [trend |-> trend, slope |-> slope, bias |-> ClampUnit(raw)]

GetBias(current_price, delta_sign_needed) ==
    /\ bias_call' = Some([current_price |-> current_price,
                          delta_sign_needed |-> delta_sign_needed])
    /\ ema_bias' = Some(GetBiasResult(current_price, delta_sign_needed))
    /\ op' = "get_bias"
    /\ UNCHANGED <<ema_cfg, ema, candle_call, candles_taken>>
    /\ UNCHANGED <<policyVars, thresholdVars, fillsVars, engineVars, stepOwnVars, deltaVars,
                   urgency, poll_call, lateVars>>

----------------------------------------------------------------------------
(* The policy asked at two biases: compute_effective_thresholds and decide  *)
(* applied to one gap and one retained pair with a lower and a higher       *)
(* combined bias (rebalance_policy.py:50-67 and 69-181). The gap is in      *)
(* whole base units, the thresholds in eighths.                             *)

\* What decide() answers for the gap with the thresholds computed at
\* combined_bias, from the retained pair as it stands
DecisionAt(gap, combined_bias, bias_strength) ==
    LET e == EffectiveThresholds(th.units, th.soft, th.hard, exposure.spot * 100, 100,
                                 combined_bias, bias_strength)
        out == DecideOutcome(8 * gap, e.soft, e.hard, last_action_threshold_used_abs,
                             last_action_side, partial_ratio, hysteresis_fraction)
    IN [combined_bias |-> combined_bias, eff_soft |-> e.soft, eff_hard |-> e.hard,
        action |-> out.action]

\* The two decisions side by side; nothing is retained from either
DecideAtBiases(gap, lower, higher, bias_strength) ==
    /\ lower < higher
    /\ urgency' = Some([gap |-> gap, bias_strength |-> bias_strength,
                        pre_threshold |-> last_action_threshold_used_abs,
                        pre_side |-> last_action_side,
                        low |-> DecisionAt(gap, lower, bias_strength),
                        high |-> DecisionAt(gap, higher, bias_strength)])
    /\ op' = "decide_at_biases"
    /\ UNCHANGED <<policyVars, thresholdVars, fillsVars, engineVars, stepOwnVars, deltaVars,
                   emaVars, poll_call, lateVars>>

\* One cycle's compute_effective_thresholds followed by decide, which retains
\* the threshold and the side of an action
DecideWithBias(gap, combined_bias, bias_strength) ==
    LET e == EffectiveThresholds(th.units, th.soft, th.hard, exposure.spot * 100, 100,
                                 combined_bias, bias_strength)
    IN Decide(8 * gap, e.soft, e.hard)

----------------------------------------------------------------------------
(* RecentFillsAnchor polling an exchange whose answer has a defective       *)
(* record (recent_fills.py:39-92), on a clock that advances by seconds.     *)

\* The clock of these runs stops here
MaxPollClock == 36

\* What can be wrong with a record of the answer: a price, quantity or time
\* that float() rejects (TypeError or ValueError, caught by the inner try), or
\* a record that is not a dict (r.get raises AttributeError outside it)
Defects == {"field", "record"}

\* The for loop of _fetch_new_fills from record i on, when record bad_at has
\* the defect: a defective field skips the record (continue), a defective
\* record raises out of the loop and `except Exception: pass` ends the call
RECURSIVE ProcessDefective(_, _, _, _, _, _, _)
ProcessDefective(fs, lastId, records, i, bad_at, defect, t) ==
    IF i > Len(records)
    THEN [fills |-> fs, last_exec_id |-> lastId, raised |-> FALSE]
    ELSE IF i = bad_at /\ defect = "record"
    THEN [fills |-> fs, last_exec_id |-> lastId, raised |-> TRUE]
    ELSE IF i = bad_at \/ ~RecordUsable(records[i]) \/ IsDuplicateOfLast(fs, records[i])
    THEN ProcessDefective(fs, lastId, records, i + 1, bad_at, defect, t)
    ELSE ProcessDefective(DequeAppend(fs, FillOf(records[i], t), MaxCached),
                          Some(records[i].execId), records, i + 1, bad_at, defect, t)

\* update() when get_executions answers with retCode 0 and record bad_at
\* (counted oldest first) has the defect: _prune_old() runs only when the loop
\* was not left by an exception
UpdateDefective(bad_at, defect) ==
    LET records == Reverse(GetExecutions(execs, ApiLimit))
        r == ProcessDefective(fills, last_exec_id, records, 1, bad_at, defect, now)
    IN /\ bad_at \in 1 .. Len(records)
       /\ op' = "update_defective"
       /\ poll_call' = Some([bad_at |-> bad_at, defect |-> defect, pre_fills |-> fills,
                             queried |-> ~RateLimited(now)])
       /\ IF RateLimited(now)
          THEN UNCHANGED <<last_poll_time, fills, last_exec_id>>
          ELSE /\ last_poll_time' = now
               /\ fills' = IF r.raised THEN r.fills
                           ELSE PruneOld(r.fills, now - window_seconds)
               /\ last_exec_id' = r.last_exec_id
       /\ UNCHANGED <<now, execs, cfg_window_seconds, window_seconds, poll_interval_s, anchor>>
       /\ UNCHANGED <<policyVars, thresholdVars, engineVars, stepOwnVars, deltaVars, emaVars,
                      urgency, lateVars>>

----------------------------------------------------------------------------
(* BybitWebSocketManager (exchange/client.py): the WebSocket thread runs     *)
(* _on_message for every message of the exchange, the polling thread calls   *)
(* get_latest_closed_kline from step(). Both work on the attributes          *)
(* latest_candle_close and latest_candle_ts without a lock; each assignment  *)
(* and each attribute read is one step of its thread.                        *)

\* The closed candles the exchange sends
MaxCandles == 6

\* The n-th closed candle of the feed: its close and its end time (in candles)
CandleClose(n) == 100 + n

CandleEnd(n) == n

\* BybitWebSocketManager.__init__: no candle yet
WsConstruct ==
    /\ ws = [latest_candle_close |-> None, latest_candle_ts |-> None]
    /\ ws_pc = "idle"
    /\ ws_msg = None
    /\ ws_feed = 0
    /\ kl_pc = "idle"
    /\ kl_close = None
    /\ kline = None

\* _on_message, a kline message with confirm set, up to the first assignment:
\* self.latest_candle_close = float(k.get("close"))
OnMessageClose ==
    /\ ws_pc = "idle"
    /\ ws_feed < MaxCandles
    /\ ws_feed' = ws_feed + 1
    /\ ws_msg' = Some(ws_feed + 1)
    /\ ws' = [ws EXCEPT !.latest_candle_close = Some(CandleClose(ws_feed + 1))]
    /\ ws_pc' = "close_set"
    /\ op' = "on_message_close"
    /\ UNCHANGED <<kl_pc, kl_close, kline>>
    /\ UNCHANGED wsRest

\* _on_message, the second assignment: self.latest_candle_ts = int(k.get("end"))
OnMessageTs ==
    /\ ws_pc = "close_set"
    /\ ws' = [ws EXCEPT !.latest_candle_ts = Some(CandleEnd(ws_msg[1]))]
    /\ ws_pc' = "idle"
    /\ ws_msg' = None
    /\ op' = "on_message_ts"
    /\ UNCHANGED <<ws_feed, kl_pc, kl_close, kline>>
    /\ UNCHANGED wsRest

\* get_latest_closed_kline, the guard: None as long as either attribute is
\* None (the close is tested first)
KlineTest ==
    /\ kl_pc \in {"idle", "test_ts"}
    /\ LET missing == IF kl_pc = "idle" THEN ws.latest_candle_close = None
                      ELSE ws.latest_candle_ts = None
       IN /\ kl_pc' = IF missing THEN "idle"
                      ELSE IF kl_pc = "idle" THEN "test_ts" ELSE "read_close"
          /\ kline' = IF missing \/ kl_pc = "idle" THEN None ELSE kline
    /\ op' = "kline_test"
    /\ UNCHANGED <<ws, ws_pc, ws_msg, ws_feed, kl_close>>
    /\ UNCHANGED wsRest

\* get_latest_closed_kline, the dict: "close": self.latest_candle_close
KlineReadClose ==
    /\ kl_pc = "read_close"
    /\ kl_close' = ws.latest_candle_close
    /\ kl_pc' = "read_ts"
    /\ op' = "kline_read_close"
    /\ UNCHANGED <<ws, ws_pc, ws_msg, ws_feed, kline>>
    /\ UNCHANGED wsRest

\* get_latest_closed_kline, the dict: "ts": self.latest_candle_ts, and the return
KlineReadTs ==
    /\ kl_pc = "read_ts"
    /\ kline' = Some([close |-> kl_close[1], ts |-> ws.latest_candle_ts[1]])
    /\ kl_close' = None
    /\ kl_pc' = "idle"
    /\ op' = "kline_return"
    /\ UNCHANGED <<ws, ws_pc, ws_msg, ws_feed>>
    /\ UNCHANGED wsRest

----------------------------------------------------------------------------
(* DeltaTracker (delta_tracker.py): sync_positions with the two position     *)
(* values it reads, in USDT, and the clock of the fills (seconds).           *)

\* The sync_positions() calls of one run
MaxSyncs == 3

\* The clock of these runs stops here
MaxTrackClock == 35

\* What _get_futures_position_usdt and _get_spot_position_usdt return
FuturesUsdtArgs == {-20, 0, 11}

SpotUsdtArgs == {0, 10}

TrackerCfg(desired, threshold, timeout) ==
    [desired_delta_usdt |-> desired, divergence_threshold_usdt |-> threshold,
     divergence_timeout_seconds |-> timeout]

\* A desired delta of 0, a threshold of 10 USDT and a timeout of 2 seconds
PlainTrackerCfg == TrackerCfg(0, 10, 2)

\* DeltaTracker.__init__
TrackerConstruct(c) ==
    /\ tracker_cfg = c
    /\ tracker = [last_total_delta |-> 0, last_sync_time |-> 0,
                  divergence_start_time |-> None, is_diverging |-> FALSE]
    /\ sync_ret = None
    /\ sync_log = << >>

\* _update_divergence_tracking(divergence_magnitude, current_time)
UpdateDivergenceTracking(t, divergence_magnitude, current_time) ==
    LET is_above_threshold == divergence_magnitude > tracker_cfg.divergence_threshold_usdt
    IN IF is_above_threshold /\ ~t.is_diverging
       THEN [t EXCEPT !.is_diverging = TRUE, !.divergence_start_time = Some(current_time)]
       ELSE IF ~is_above_threshold /\ t.is_diverging
       THEN [t EXCEPT !.is_diverging = FALSE, !.divergence_start_time = None]
       ELSE t

\* _get_divergence_duration(current_time)
GetDivergenceDuration(t, current_time) ==
    IF ~t.is_diverging \/ t.divergence_start_time = None THEN None
    ELSE Some(current_time - t.divergence_start_time[1])

\* Mutant of NeedsRebalance: the timeout is not awaited.
NeedsRebalance_NoTimeout(t, delta_divergence, current_time) ==
    Abs(delta_divergence) > tracker_cfg.divergence_threshold_usdt

\* _needs_rebalance(delta_divergence, current_time); a duration of None or 0
\* is falsy
NeedsRebalance(t, delta_divergence, current_time) ==
    LET divergence_duration == GetDivergenceDuration(t, current_time)
    IN IF Abs(delta_divergence) <= tracker_cfg.divergence_threshold_usdt THEN FALSE
       ELSE /\ divergence_duration # None
            /\ divergence_duration[1] # 0
            /\ divergence_duration[1] > tracker_cfg.divergence_timeout_seconds

\* sync_positions(): futures_position_usdt and spot_position_usdt are what the
\* two reads return
SyncPositions(futures_position_usdt, spot_position_usdt) ==
    LET current_time == now
        total_delta == futures_position_usdt + spot_position_usdt
        delta_divergence == total_delta - tracker_cfg.desired_delta_usdt
        t == UpdateDivergenceTracking(
                 [tracker EXCEPT !.last_total_delta = total_delta,
                                 !.last_sync_time = current_time],
                 Abs(delta_divergence), current_time)
    IN /\ Len(sync_log) < MaxSyncs
       /\ tracker' = t
       /\ sync_ret' = Some([total_delta |-> total_delta,
                            delta_divergence |-> delta_divergence,
                            divergence_magnitude |-> Abs(delta_divergence),
                            is_diverging |-> t.is_diverging,
                            divergence_duration |-> GetDivergenceDuration(t, current_time),
                            needs_rebalance |-> NeedsRebalance(t, delta_divergence, current_time),
                            sync_time |-> current_time])
       /\ sync_log' = Append(sync_log, [at |-> current_time,
                                        magnitude |-> Abs(delta_divergence)])
       /\ op' = "sync_positions"
       /\ UNCHANGED tracker_cfg
       /\ UNCHANGED trackerRest

----------------------------------------------------------------------------
(* SimplifiedEMAStrategy (strategy.py), take profits executed at market.     *)
(* Quantities are whole coins (qty_step 1, min_order_qty 1), prices and      *)
(* averages are in tenths of USDT, values in tenths of USDT, the two stop    *)
(* prices in 1/10000 of the price unit, percentages in hundredths of a       *)
(* percent. No delta tracker is set. The answers of the exchange are inputs  *)
(* of the calls; the averages update_emas computes are inputs of the candle. *)
(* The flag conditional_stop_triggered, which is written and never read, the *)
(* trade log and the realised profit are left out.                           *)

\* The positions the exchange opens in one run
MaxLives == 1

\* The clock of these runs stops here
MaxStratClock == 40

\* The entry orders the exchange accepts in one run
MaxOrderIds == 3

\* round(n / d) as Python rounds: to the nearest integer, halves to the even one
RoundHalfEven(n, d) ==
    LET q == n \div d
        r2 == 2 * (n % d)
    IN IF r2 < d THEN q ELSE IF r2 > d THEN q + 1 ELSE IF q % 2 = 0 THEN q ELSE q + 1

\* setup_config with the shipped defaults, take profits at market and an
\* allocation of 1000 USDT
StratCfg ==
    [trend_threshold_pct |-> 10, max_allocation_usdt |-> 10000,
     ema9_allocation_usdt |-> 2500, ema21_allocation_usdt |-> 7500,
     take_profit_levels |-> [tp1 |-> [pct |-> 30, exit_pct |-> 30],
                             tp2 |-> [pct |-> 60, exit_pct |-> 40],
                             tp3 |-> [pct |-> 100, exit_pct |-> 50]],
     tp_execution_method |-> "market", stop_loss_pct |-> 25, hard_stop_loss_pct |-> 100,
     entry_cooldown |-> 120, order_placement_cooldown |-> 10, min_order_value |-> 500,
     order_update_threshold_pct |-> 10, entry_offset_pct |-> 0,
     qty_step |-> 1, min_order_qty |-> 1]

TpNames == <<"tp1", "tp2", "tp3">>

\* (ema_fast, ema_slow) as update_emas leaves them
EmaPairs == {<<1012, 1010>>, <<1002, 1000>>, <<1000, 1010>>}

\* The prices update() is called with
StratPrices == {990, 997, 1003, 1010}

\* What the exchange opens: a long or a short position of 10 at 100.0
OpenedPositions == {<<10, 1000>>, <<-10, 1000>>}

\* What the exchange does with a reduce-only market order: it rejects it; it
\* accepts and fills it before the strategy reads the position; it accepts it
\* and fills it after the strategy has read the position
MarketAnswers == {"rejected", "filled", "lagging"}

Sign(x) == IF x > 0 THEN 1 ELSE IF x < 0 THEN -1 ELSE 0

\* calculate_trend
CalculateTrend(ema_fast, ema_slow) ==
    IF ema_fast * 10000 > ema_slow * (10000 + StratCfg.trend_threshold_pct) THEN "UPTREND"
    ELSE IF ema_fast * 10000 < ema_slow * (10000 - StratCfg.trend_threshold_pct) THEN "DOWNTREND"
    ELSE "NEUTRAL"

\* format_quantity(num / den): rounded to the step, raised to min_order_qty
FormatQuantity(num, den) ==
    Max(RoundHalfEven(num, den * StratCfg.qty_step) * StratCfg.qty_step, StratCfg.min_order_qty)

\* SimplifiedEMAStrategy.__init__ followed by initialize() with a flat account:
\* the averages are seeded and the trend is computed
StratConstruct(pair) ==
    /\ strat = [position |-> 0, avg_entry_price |-> 0, original_position_size |-> 0,
                last_position_size |-> 0, tp_levels_hit |-> {},
                ema9_position_value |-> 0, ema21_position_value |-> 0,
                trailing_stop_price |-> None, hard_stop_price |-> None,
                ema_fast |-> pair[1], ema_slow |-> pair[2],
                trend |-> CalculateTrend(pair[1], pair[2]),
                last_entry_time |-> 0, limit_orders |-> {},
                last_ema9_order_time |-> 0, last_ema21_order_time |-> 0,
                last_order_update_time |-> 0]
    /\ ex = [position |-> 0, avg_price |-> 0, pending |-> 0, opened |-> 0,
             open |-> {}, next_id |-> 1]
    /\ strat_call = None
    /\ life = [stops |-> None, tp_sent |-> << >>]

\* sync_position(): the position and its average price are read; a position
\* that appeared resets the take-profit levels and seeds the per-EMA values, a
\* position that vanished resets the conditional stop, the levels and the
\* values, a position that changed re-scales the values when they are more
\* than 5 % off. Nothing changes when the read fails.
SyncPositionOn(s, x, ok) ==
    LET p == x.position
        avg == IF p = 0 THEN 0 ELSE x.avg_price
        s1 == [s EXCEPT !.position = p, !.avg_entry_price = avg]
        value == Abs(p) * avg
        tracked == s.ema9_position_value + s.ema21_position_value
    IN IF ~ok THEN s
       ELSE IF s.position = p THEN s1
       ELSE IF s.position = 0
       THEN LET s2 == [s1 EXCEPT !.original_position_size = Abs(p),
                                 !.last_position_size = Abs(p),
                                 !.tp_levels_hit = {}]
            IN IF tracked = 0 /\ avg > 0
               THEN [s2 EXCEPT
                        !.ema9_position_value =
                            (value * StratCfg.ema9_allocation_usdt)
                                \div StratCfg.max_allocation_usdt,
                        !.ema21_position_value =
                            (value * StratCfg.ema21_allocation_usdt)
                                \div StratCfg.max_allocation_usdt]
               ELSE s2
       ELSE IF p = 0
       THEN [s1 EXCEPT !.trailing_stop_price = None, !.original_position_size = 0,
                       !.tp_levels_hit = {}, !.ema9_position_value = 0,
                       !.ema21_position_value = 0]
       ELSE IF avg > 0 /\ tracked > 0 /\ Abs(value - tracked) * 100 > 5 * tracked
       THEN [s1 EXCEPT !.ema9_position_value = (value * s.ema9_position_value) \div tracked,
                       !.ema21_position_value = (value * s.ema21_position_value) \div tracked]
       ELSE s1

\* The exchange after it accepted a reduce-only market order of qty
AfterMarketOrder(x, qty, answer) ==
    IF answer = "rejected" THEN x
    ELSE IF answer = "lagging" THEN [x EXCEPT !.pending = x.pending + qty]
    ELSE LET left == Max(Abs(x.position) - qty, 0)
         IN [x EXCEPT !.position = Sign(x.position) * left,
                      !.avg_price = IF left = 0 THEN 0 ELSE x.avg_price]

\* The answers the exchange can give to a reduce-only order: it accepts only
\* while something of the position is left to be reduced
AnswersOf(x) ==
    IF Abs(x.position) - x.pending > 0 THEN MarketAnswers ELSE {"rejected"}

\* execute_tp_level(price, tp_name, tp_config): the state, the exchange and
\* the orders submitted
ExecuteTpLevelOn(s, x, tp_name, answer) ==
    LET tp_config == StratCfg.take_profit_levels[tp_name]
        raw_num == s.original_position_size * tp_config.exit_pct
        capped == raw_num > Abs(s.position) * 10000
        exit_qty == IF capped THEN FormatQuantity(Abs(s.position), 1)
                    ELSE FormatQuantity(raw_num, 10000)
        side == IF s.position > 0 THEN "Sell" ELSE "Buy"
        accepted == answer # "rejected"
        exit_value_usdt == exit_qty * s.avg_entry_price
        total_ema_value == s.ema9_position_value + s.ema21_position_value
        s1 == IF total_ema_value > 0
              THEN [s EXCEPT
                       !.ema9_position_value =
                           Max(0, s.ema9_position_value
                                    - (exit_value_usdt * s.ema9_position_value)
                                          \div total_ema_value),
                       !.ema21_position_value =
                           Max(0, s.ema21_position_value
                                    - (exit_value_usdt * s.ema21_position_value)
                                          \div total_ema_value)]
              ELSE s
        x1 == AfterMarketOrder(x, exit_qty, answer)
    IN IF s.position = 0 \/ s.original_position_size = 0
       THEN [strat |-> s, ex |-> x, sent |-> << >>]
       ELSE IF exit_qty < StratCfg.min_order_qty
       THEN [strat |-> s, ex |-> x, sent |-> << >>]
       ELSE [strat |-> IF accepted
                       THEN SyncPositionOn(s1, x1, TRUE)
                       ELSE s,
             ex |-> x1,
             sent |-> <<[kind |-> "tp", tp |-> tp_name, side |-> side, qty |-> exit_qty,
                         accepted |-> accepted]>>]

\* execute_full_exit(price, reason): the entry orders are cancelled, the whole
\* position is sold or bought back at market; once the order is accepted the
\* position is read and the stops, the levels and original_position_size are
\* reset and the entry cooldown starts
ExecuteFullExitOn(s, x, answer) ==
    LET exit_qty == FormatQuantity(Abs(s.position), 1)
        side == IF s.position > 0 THEN "Sell" ELSE "Buy"
        accepted == answer # "rejected"
        s1 == [s EXCEPT !.limit_orders = {}]
        x1 == AfterMarketOrder([x EXCEPT !.open = x.open \ {o.id : o \in s.limit_orders}],
                               exit_qty, answer)
        s2 == SyncPositionOn(s1, x1, TRUE)
    IN IF s.position = 0 \/ exit_qty < StratCfg.min_order_qty
       THEN [strat |-> s, ex |-> x, sent |-> << >>]
       ELSE [strat |-> IF accepted
                       THEN [s2 EXCEPT !.trailing_stop_price = None,
                                       !.hard_stop_price = None,
                                       !.original_position_size = 0,
                                       !.tp_levels_hit = {},
                                       !.last_entry_time = now]
                       ELSE s1,
             ex |-> x1,
             sent |-> <<[kind |-> "exit", tp |-> "", side |-> side, qty |-> exit_qty,
                         accepted |-> accepted]>>]

\* pnl_pct >= pct, the percentage in hundredths of a percent
PnlReaches(s, price, pct) ==
    IF s.position > 0 THEN (price - s.avg_entry_price) * 10000 >= pct * s.avg_entry_price
    ELSE (s.avg_entry_price - price) * 10000 >= pct * s.avg_entry_price

\* Mutant of ReachedLevels: the levels already hit are not skipped.
ReachedLevels_Again(s, price) ==
    {i \in 1 .. Len(TpNames) :
        PnlReaches(s, price, StratCfg.take_profit_levels[TpNames[i]].pct)}

\* The levels the loop of check_exits stops at: not yet hit and reached
ReachedLevels(s, price) ==
    {i \in 1 .. Len(TpNames) :
        /\ TpNames[i] \notin s.tp_levels_hit
        /\ PnlReaches(s, price, StratCfg.take_profit_levels[TpNames[i]].pct)}

\* The trend exit of check_exits: a long position without an uptrend, a short
\* position without a downtrend
TrendWeakened(s) ==
    \/ s.position > 0 /\ s.trend \in {"NEUTRAL", "DOWNTREND"}
    \/ s.position < 0 /\ s.trend \in {"NEUTRAL", "UPTREND"}

\* What the history keeps of a call (arg is can_place_new for manage_entry_orders)
LifeAfter(s, stops, sent) ==
    IF s.position = 0 THEN [stops |-> None, tp_sent |-> << >>]
    ELSE [stops |-> stops,
          tp_sent |-> life.tp_sent \o [i \in 1 .. Len(SelectSeq(sent, LAMBDA o : o.kind = "tp"))
                                          |-> SelectSeq(sent, LAMBDA o : o.kind = "tp")[i].tp]]

\* The strategy is left in state s and the exchange in state x by the call fn
StratReturns(fn, arg, s, x, sent, stops, raised) ==
    /\ strat' = s
    /\ ex' = x
    /\ strat_call' = Some([arg |-> arg, sent |-> sent, raised |-> raised])
    /\ life' = LifeAfter(s, stops, sent)
    /\ op' = fn
    /\ UNCHANGED now
    /\ UNCHANGED stratRest

\* check_exits(price) as update() calls it with a position: the first level
\* reached and not yet hit is executed and recorded; then the trend exit
CheckExits(price, answer, exit_answer) ==
    /\ strat.position # 0
    /\ strat.avg_entry_price # 0
    /\ answer \in AnswersOf(ex)
    /\ LET reached == ReachedLevels(strat, price)
           tp_name == TpNames[CHOOSE i \in reached : \A j \in reached : i <= j]
           r == IF reached = {} THEN [strat |-> strat, ex |-> ex, sent |-> << >>]
                ELSE ExecuteTpLevelOn(strat, ex, tp_name, answer)
           s1 == IF reached = {} THEN r.strat
                 ELSE [r.strat EXCEPT !.tp_levels_hit = @ \cup {tp_name}]
           e == IF TrendWeakened(s1) THEN ExecuteFullExitOn(s1, r.ex, exit_answer)
                ELSE [strat |-> s1, ex |-> r.ex, sent |-> << >>]
       IN /\ exit_answer \in AnswersOf(r.ex)
          /\ reached = {} => answer = "rejected"
          /\ ~TrendWeakened(s1) => exit_answer = "rejected"
          /\ StratReturns("check_exits", None, e.strat, e.ex, r.sent \o e.sent,
                          life.stops, FALSE)

\* The two stop levels of manage_stops for the slow average, in 1/10000
ConditionalStop(s) ==
    IF s.position > 0 THEN s.ema_slow * (10000 - StratCfg.stop_loss_pct)
    ELSE s.ema_slow * (10000 + StratCfg.stop_loss_pct)

HardStop(s) ==
    IF s.position > 0 THEN s.ema_slow * (10000 - StratCfg.hard_stop_loss_pct)
    ELSE s.ema_slow * (10000 + StratCfg.hard_stop_loss_pct)

\* manage_stops, the stops: set when trailing_stop_price is None, otherwise
\* moved only upwards for a long and only downwards for a short position
Ratchet(s) ==
    IF s.trailing_stop_price = None
    THEN [s EXCEPT !.trailing_stop_price = Some(ConditionalStop(s)),
                   !.hard_stop_price = Some(HardStop(s))]
    ELSE IF s.position > 0
    THEN [s EXCEPT !.trailing_stop_price = Some(Max(@[1], ConditionalStop(s))),
                   !.hard_stop_price = Some(Max(@[1], HardStop(s)))]
    ELSE [s EXCEPT !.trailing_stop_price = Some(Min(@[1], ConditionalStop(s))),
                   !.hard_stop_price = Some(Min(@[1], HardStop(s)))]

\* price beyond the stop: at or below it for a long, at or above for a short
StopHit(s, price, stop) ==
    IF s.position > 0 THEN price * 10000 <= stop[1] ELSE price * 10000 >= stop[1]

\* manage_stops(price, is_new_candle) as update() calls it with a position
ManageStops(price, is_new_candle, answer) ==
    /\ strat.position # 0
    /\ strat.avg_entry_price # 0
    /\ answer \in AnswersOf(ex)
    /\ LET s1 == Ratchet(strat)
           stops == Some(<<s1.trailing_stop_price[1], s1.hard_stop_price[1]>>)
           hard == StopHit(s1, price, s1.hard_stop_price)
           soft == StopHit(s1, price, s1.trailing_stop_price)
           exits == hard \/ (is_new_candle /\ soft)
           e == IF exits THEN ExecuteFullExitOn(s1, ex, answer)
                ELSE [strat |-> s1, ex |-> ex, sent |-> << >>]
       IN /\ ~exits => answer = "rejected"
          /\ StratReturns("manage_stops", None, e.strat, e.ex, e.sent, stops, FALSE)

\* sync_position() as update() calls it every 30 seconds
SyncPosition(ok) ==
    StratReturns("sync_position", None, SyncPositionOn(strat, ex, ok), ex, << >>,
                 life.stops, FALSE)

\* update_emas(price) on a new candle: the averages move, the trend follows
UpdateEmas(pair) ==
    /\ <<strat.ema_fast, strat.ema_slow>> # pair
    /\ ex.next_id <= MaxOrderIds
    /\ StratReturns("update_emas", None,
                    [strat EXCEPT !.ema_fast = pair[1], !.ema_slow = pair[2],
                                  !.trend = CalculateTrend(pair[1], pair[2])],
                    ex, << >>, life.stops, FALSE)

\* The exchange fills an entry: a position appears
ExchangeOpens(opened) ==
    /\ ex.position = 0
    /\ ex.pending = 0
    /\ ex.opened < MaxLives
    /\ ex' = [ex EXCEPT !.position = opened[1], !.avg_price = opened[2],
                        !.opened = ex.opened + 1]
    /\ op' = "exchange_opens"
    /\ UNCHANGED <<strat, strat_call, life, now>>
    /\ UNCHANGED stratRest

\* The exchange fills the exits it accepted earlier
ExchangeFills ==
    /\ ex.pending > 0
    /\ LET left == Max(Abs(ex.position) - ex.pending, 0)
       IN ex' = [ex EXCEPT !.position = Sign(ex.position) * left,
                           !.avg_price = IF left = 0 THEN 0 ELSE ex.avg_price,
                           !.pending = 0]
    /\ op' = "exchange_fills"
    /\ UNCHANGED <<strat, strat_call, life, now>>
    /\ UNCHANGED stratRest

\* (ema_fast, ema_slow) for the entries: two uptrends, a neutral pair whose
\* separation is exactly the threshold, a downtrend
EntryEmaPairs == {<<1012, 1010>>, <<1002, 1000>>, <<1001, 1000>>, <<1000, 1010>>}

\* What the exchange answers to the orders and cancels of one call
EntryAnswers == [place9 : BOOLEAN, place21 : BOOLEAN, cancel_ok : BOOLEAN]

\* The orders of a dict in insertion order, which is the order of their ids
RECURSIVE InOrder(_)
InOrder(orders_) ==
    IF orders_ = {} THEN << >>
    ELSE LET first == CHOOSE o \in orders_ : \A q \in orders_ : o.id <= q.id
         IN <<first>> \o InOrder(orders_ \ {first})

\* Mutant of TrackedAt: the tracked orders of a level are not seen.
TrackedAt_Blind(s, ema_type) == {}

\* The tracked orders of a level, as every scan of limit_orders.values()
\* selects them by info['ema']
TrackedAt(s, ema_type) == {o \in s.limit_orders : o.ema = ema_type}

\* place_limit_order, the first check: an order at this EMA is tracked already
HasOrderAt(s, ema_type) == TrackedAt(s, ema_type) # {}

LastOrderTime(s, ema_type) ==
    IF ema_type = "9" THEN s.last_ema9_order_time ELSE s.last_ema21_order_time

\* place_limit_order(side, ema_price, ema_type, allocation_usdt) with an entry
\* offset of 0: nothing when an order at the level exists, during the 10 s
\* after the last order at the level or without allocation; otherwise the
\* order is submitted and, once accepted, tracked under its orderId
PlaceLimitOrderOn(s, x, side, ema_price, ema_type, allocation_usdt, accepted, by) ==
    LET qty == FormatQuantity(allocation_usdt, ema_price)
        order_id == x.next_id
        order == [id |-> order_id, ema |-> ema_type, price |-> ema_price, side |-> side,
                  qty |-> qty, usdt_amount |-> allocation_usdt]
        s1 == [s EXCEPT !.limit_orders = {o \in @ : o.id # order_id} \cup {order}]
    IN IF \/ HasOrderAt(s, ema_type)
          \/ now - LastOrderTime(s, ema_type) < StratCfg.order_placement_cooldown
          \/ allocation_usdt <= 0
          \/ qty < StratCfg.min_order_qty
       THEN [strat |-> s, ex |-> x, sent |-> << >>]
       ELSE [strat |-> IF ~accepted THEN s
                       ELSE IF ema_type = "9" THEN [s1 EXCEPT !.last_ema9_order_time = now]
                       ELSE [s1 EXCEPT !.last_ema21_order_time = now],
             ex |-> IF ~accepted THEN x
                    ELSE [x EXCEPT !.next_id = order_id + 1,
                                   !.open = @ \cup {[id |-> order_id, side |-> side,
                                                     qty |-> qty, price |-> ema_price]}],
             sent |-> <<[kind |-> by, tp |-> ema_type, side |-> side, qty |-> qty,
                         accepted |-> accepted]>>]

\* cancel_order(order_id): the exchange cancels an open order and answers
\* 110001 for one that is gone, after which the position is read; without an
\* answer the order counts as filled. The order is dropped from the tracking
\* in every case.
CancelOrderOn(s, x, order_id, cancel_ok) ==
    LET is_open == \E o \in x.open : o.id = order_id
        x1 == IF cancel_ok THEN [x EXCEPT !.open = {o \in @ : o.id # order_id}] ELSE x
        s1 == IF cancel_ok /\ ~is_open THEN SyncPositionOn(s, x, TRUE) ELSE s
    IN [strat |-> [s1 EXCEPT !.limit_orders = {o \in @ : o.id # order_id}],
        ex |-> x1,
        was_filled |-> ~cancel_ok \/ ~is_open]

\* abs(self.position) * self.avg_entry_price if self.avg_entry_price > 0 else 0
PositionValue(s) == IF s.avg_entry_price > 0 THEN Abs(s.position) * s.avg_entry_price ELSE 0

\* update_limit_orders(), the loop over a copy of the tracked orders: an order
\* beyond the capital left (with 10 % tolerance) is cancelled; an order more
\* than order_update_threshold_pct away from its EMA is cancelled and, unless
\* it was filled, placed again at the EMA
RECURSIVE UpdateLimitOrdersLoop(_, _, _, _, _, _)
UpdateLimitOrdersLoop(s, x, todo, available_capital, answers, sent) ==
    IF todo = << >> THEN [strat |-> s, ex |-> x, sent |-> sent]
    ELSE LET info == Head(todo)
             current_ema == IF info.ema = "9" THEN s.ema_fast ELSE s.ema_slow
             c == CancelOrderOn(s, x, info.id, answers.cancel_ok)
             new_allocation ==
                 ((StratCfg.max_allocation_usdt - PositionValue(c.strat))
                     * (IF info.ema = "9" THEN StratCfg.ema9_allocation_usdt
                        ELSE StratCfg.ema21_allocation_usdt))
                   \div StratCfg.max_allocation_usdt
             placed == PlaceLimitOrderOn(c.strat, c.ex, info.side, current_ema, info.ema,
                                         new_allocation,
                                         IF info.ema = "9" THEN answers.place9
                                         ELSE answers.place21, "reprice")
         IN IF info.usdt_amount * 10 > available_capital * 11
            THEN UpdateLimitOrdersLoop(c.strat, c.ex, Tail(todo), available_capital,
                                       answers, sent)
            ELSE IF Abs(info.price - current_ema) * 10000
                        > StratCfg.order_update_threshold_pct * current_ema
            THEN IF ~c.was_filled /\ new_allocation > 0
                 THEN UpdateLimitOrdersLoop(placed.strat, placed.ex, Tail(todo),
                                            available_capital, answers, sent \o placed.sent)
                 ELSE UpdateLimitOrdersLoop(c.strat, c.ex, Tail(todo), available_capital,
                                            answers, sent)
            ELSE UpdateLimitOrdersLoop(s, x, Tail(todo), available_capital, answers, sent)

UpdateLimitOrdersOn(s, x, answers) ==
    UpdateLimitOrdersLoop(s, x, InOrder(s.limit_orders),
                          StratCfg.max_allocation_usdt - PositionValue(s), answers, << >>)

\* _has_sufficient_trend_strength()
HasSufficientTrendStrength(s) ==
    ~(Abs(s.ema_slow - s.ema_fast) * 10000 < StratCfg.trend_threshold_pct * s.ema_slow)

\* The allocation manage_entry_orders finds available at a level
AvailableAt(s, ema_type) ==
    LET allocation == IF ema_type = "9" THEN StratCfg.ema9_allocation_usdt
                      ELSE StratCfg.ema21_allocation_usdt
        locked == IF ema_type = "9" THEN s.ema9_position_value ELSE s.ema21_position_value
        RECURSIVE Pending(_)
        Pending(todo) == IF todo = << >> THEN 0
                         ELSE Head(todo).usdt_amount + Pending(Tail(todo))
    IN IF locked >= allocation THEN 0
       ELSE Max(0, allocation - locked - Pending(InOrder(TrackedAt(s, ema_type))))

\* manage_entry_orders from the trend test on, the orders having been updated:
\* early returns; with can_place_new the levels that need an order are
\* determined; an uptrend or a downtrend then reads needs_ema9, which is
\* unbound when can_place_new is false
EntriesOn(s, x, can_place_new, answers, sent) ==
    LET returned == [strat |-> s, ex |-> x, sent |-> sent, raised |-> FALSE]
        side == IF s.trend = "UPTREND" THEN "Buy" ELSE "Sell"
        needs_ema9 == TrackedAt(s, "9") = {}
        needs_ema21 == TrackedAt(s, "21") = {}
        p9 == IF needs_ema9 /\ AvailableAt(s, "9") >= StratCfg.min_order_value
              THEN PlaceLimitOrderOn(s, x, side, s.ema_fast, "9", AvailableAt(s, "9"),
                                     answers.place9, "entry")
              ELSE [strat |-> s, ex |-> x, sent |-> << >>]
        p21 == IF needs_ema21 /\ AvailableAt(s, "21") >= StratCfg.min_order_value
               THEN PlaceLimitOrderOn(p9.strat, p9.ex, side, s.ema_slow, "21",
                                      AvailableAt(s, "21"), answers.place21, "entry")
               ELSE p9
    IN IF ~HasSufficientTrendStrength(s) THEN returned
       ELSE IF s.trend = "NEUTRAL" /\ ~can_place_new THEN returned
       ELSE IF \/ s.position > 0 /\ s.trend = "DOWNTREND"
               \/ s.position < 0 /\ s.trend = "UPTREND" THEN returned
       ELSE IF s.ema9_position_value + s.ema21_position_value >= StratCfg.max_allocation_usdt
       THEN returned
       ELSE IF s.trend = "NEUTRAL" THEN returned
       ELSE IF ~can_place_new THEN [returned EXCEPT !.raised = TRUE]
       ELSE [strat |-> p21.strat, ex |-> p21.ex, sent |-> sent \o p9.sent \o
                 (IF p21.sent = p9.sent THEN << >> ELSE p21.sent), raised |-> FALSE]

\* can_place_new as update() computes it; a last_entry_time of 0 lies further
\* back than any cooldown
CanPlaceNew(s) ==
    s.last_entry_time = 0 \/ now - s.last_entry_time > StratCfg.entry_cooldown

\* manage_entry_orders(price, can_place_new) as update() calls it: the tracked
\* orders are updated when the last update is more than 5 s old, then the
\* entries are placed
ManageEntryOrders(answers) ==
    /\ ex.next_id < MaxOrderIds
    /\ LET updates == now - strat.last_order_update_time > 5
           u == IF updates THEN UpdateLimitOrdersOn(strat, ex, answers)
                ELSE [strat |-> strat, ex |-> ex, sent |-> << >>]
           s1 == IF updates THEN [u.strat EXCEPT !.last_order_update_time = now]
                 ELSE u.strat
           e == EntriesOn(s1, u.ex, CanPlaceNew(strat), answers, u.sent)
       IN StratReturns("manage_entry_orders", Some(CanPlaceNew(strat)), e.strat, e.ex,
                       e.sent, life.stops, e.raised)

\* sync_orders(): the tracked orders that are no longer open on the exchange
\* count as filled: their amount is locked at their level and they are dropped
SyncOrdersOn(s, x, ok) ==
    LET stale == {o \in s.limit_orders : ~(\E q \in x.open : q.id = o.id)}
        RECURSIVE Locked(_, _)
        Locked(todo, ema_type) ==
            IF todo = << >> THEN 0
            ELSE (IF Head(todo).ema = ema_type THEN Head(todo).usdt_amount ELSE 0)
                 + Locked(Tail(todo), ema_type)
    IN IF ~ok THEN s
       ELSE [s EXCEPT !.ema9_position_value = @ + Locked(InOrder(stale), "9"),
                      !.ema21_position_value = @ + Locked(InOrder(stale), "21"),
                      !.limit_orders = @ \ stale]

\* update(), the sync of every 30 seconds: sync_position() and sync_orders()
SyncAll(ok_position, ok_orders) ==
    StratReturns("sync", None,
                 SyncOrdersOn(SyncPositionOn(strat, ex, ok_position), ex, ok_orders),
                 ex, << >>, life.stops, FALSE)

\* The exchange fills an open entry order
ExchangeFillsEntry(order_id) ==
    /\ \E o \in ex.open :
          /\ o.id = order_id
          /\ LET position == ex.position + (IF o.side = "Buy" THEN o.qty ELSE 0 - o.qty)
             IN ex' = [ex EXCEPT
                          !.open = @ \ {o},
                          !.position = position,
                          !.avg_price =
                              IF position = 0 THEN 0
                              ELSE RoundHalfEven(Abs(ex.position) * ex.avg_price
                                                     + o.qty * o.price,
                                                 Abs(ex.position) + o.qty)]
    /\ op' = "exchange_fills_entry"
    /\ UNCHANGED <<strat, strat_call, life, now>>
    /\ UNCHANGED stratRest

\* The collaborators as constructed
LateConstruct ==
    /\ WsConstruct
    /\ TrackerConstruct(PlainTrackerCfg)
    /\ StratConstruct(<<1002, 1000>>)

\* The units as SpotRebalancer.__init__ constructs them
UnitsConstruct ==
    /\ DeltaConstruct
    /\ EmaConstruct(PlainEmaCfg)
    /\ urgency = None
    /\ poll_call = None
    /\ LateConstruct

----------------------------------------------------------------------------
(* Specifications: one per component, the other components stay as constructed *)

PolicyInit ==
    /\ \E pr \in RatioArgs, hf \in RatioArgs : PolicyConstruct(pr, hf)
    /\ ThresholdsConstruct("base", 1, 3)
    /\ FillsConstruct(150, DefaultPollInterval)
    /\ EnvInit
    /\ PlainEngine
    /\ StepConstruct(PlainStepCfg)
    /\ UnitsConstruct
    /\ op = "init"

\* decide() is handed what compute_effective_thresholds returned: 0 <= eff_soft <= eff_hard
PolicyNext ==
    \E gap \in -MaxGap .. MaxGap, eff_soft \in 0 .. MaxThr, eff_hard \in 0 .. MaxThr :
        /\ eff_soft <= eff_hard
        /\ Decide(gap, eff_soft, eff_hard)

PolicySpec == PolicyInit /\ [][PolicyNext]_vars

ThresholdInit ==
    /\ PolicyConstruct(50, 50)
    /\ \E units \in {"base", "percent"}, soft \in 0 .. MaxCfgThreshold,
          hard \in 0 .. MaxCfgThreshold : ThresholdsConstruct(units, soft, hard)
    /\ FillsConstruct(150, DefaultPollInterval)
    /\ EnvInit
    /\ PlainEngine
    /\ StepConstruct(PlainStepCfg)
    /\ UnitsConstruct
    /\ op = "init"

\* the notional is balance * price (rebalancer.py:117-129)
ThresholdNext ==
    \E total \in 0 .. MaxSpotTotal, price \in 1 .. MaxMarkPrice,
       cb \in BiasArgs, bs \in StrengthArgs :
        ComputeEffectiveThresholds(total * price, price, cb, bs)

ThresholdSpec == ThresholdInit /\ [][ThresholdNext]_vars

FillsInit ==
    /\ PolicyConstruct(50, 50)
    /\ ThresholdsConstruct("base", 1, 3)
    /\ \E w2 \in WindowArgs : FillsConstruct(w2, DefaultPollInterval)
    /\ EnvInit
    /\ PlainEngine
    /\ StepConstruct(PlainStepCfg)
    /\ UnitsConstruct
    /\ op = "init"

FillsNext ==
    \/ \E d \in TickSteps : Tick(d)
    \/ \E side \in {"Buy", "Sell"}, kind \in ExecKinds : ExchangeExecution(side, kind)
    \/ \E ok \in BOOLEAN : Update(ok)
    \/ GetAnchor

FillsSpec == FillsInit /\ [][FillsNext]_vars

ExecInit ==
    /\ PolicyConstruct(50, 50)
    /\ ThresholdsConstruct("base", 1, 3)
    /\ FillsConstruct(150, DefaultPollInterval)
    /\ EnvInit
    /\ \E limits \in TradeLimitArgs, chase2 \in ChaseArgs, post_only \in BOOLEAN :
          EngineConstruct(limits, chase2, post_only, FALSE, TRUE)
    /\ StepConstruct(PlainStepCfg)
    /\ UnitsConstruct
    /\ op = "init"

EngineProgress ==
    \/ LoopTest
    \/ Wake

ExchangeAnswers ==
    \/ \E accepted \in BOOLEAN : LimitResponse(accepted)
    \/ \E accepted \in BOOLEAN : MarketResponse(accepted)

ExecNext ==
    \/ \E side \in {"Buy", "Sell"}, qty_base \in QtyArgs : Market(side, qty_base)
    \/ \E side \in {"Buy", "Sell"}, qty_base \in QtyArgs, best_px \in PxArgs,
          allow_taker \in BOOLEAN : MakerThenEscalate(side, qty_base, best_px, allow_taker)
    \/ LoopTest
    \/ \E accepted \in BOOLEAN : LimitResponse(accepted)
    \/ Wake
    \/ \E accepted \in BOOLEAN : MarketResponse(accepted)
    \/ HalfTick

ExecSpec == ExecInit /\ [][ExecNext]_vars

\* The clock advances, exchange calls return and the engine's thread runs
ExecFairSpec ==
    /\ ExecSpec
    /\ WF_vars(HalfTick)
    /\ WF_vars(ExchangeAnswers)
    /\ WF_vars(EngineProgress)

StepInit ==
    /\ PolicyConstruct(50, 70)
    /\ ThresholdsConstruct("base", 2, 4)
    /\ FillsConstruct(150, DefaultPollInterval)
    /\ now = 30
    /\ execs \in EarlierExecs
    /\ \E taker \in TakerArgs :
          EngineConstruct(<<100, 2400>>, 2, TRUE, taker[1], taker[2])
    /\ StepConstruct(PlainStepCfg)
    /\ UnitsConstruct
    /\ op = "init"

StepNext ==
    \/ \E ok \in BOOLEAN, price \in {None} \cup {Some(x) : x \in PriceArgs}, e \in ExposureArgs :
          StepBegin(ok, price, e)
    \/ StepFinish
    \/ LoopTest
    \/ \E accepted \in BOOLEAN : LimitResponse(accepted)
    \/ Wake
    \/ \E accepted \in BOOLEAN : MarketResponse(accepted)
    \/ /\ \/ eng_pc = "sleep" /\ Clock2 < eng_wake
          \/ eng_pc = "idle" /\ step_pc = "idle" /\ Clock2 < loop_wake
       /\ HalfTick

\* In the runs of step() the clock advances while the engine or the runner
\* sleeps: every sleep lasts half a second and the exchange answers at once
StepSpec == StepInit /\ [][StepNext]_vars

\* (partial_rebalance_ratio in hundredths, (min_trade_base, max_trade_base),
\* thresholds): a ratio of 0 with the usual limits, the usual ratio with a
\* smallest trade of 3 base units, and thresholds of 1 and 2 times the spot
\* notional (units 'percent')
EdgeArgs ==
    {<<0, <<100, 2400>>, <<"base", 2, 4>>>>,
     <<50, <<2400, 4000>>, <<"base", 2, 4>>>>,
     <<50, <<100, 2400>>, <<"percent", 1, 2>>>>}

StepEdgeInit ==
    /\ \E a \in EdgeArgs :
          /\ PolicyConstruct(a[1], 70)
          /\ EngineConstruct(a[2], 2, TRUE, FALSE, TRUE)
          /\ ThresholdsConstruct(a[3][1], a[3][2], a[3][3])
    /\ FillsConstruct(150, DefaultPollInterval)
    /\ now = 30
    /\ execs \in EarlierExecs
    /\ StepConstruct(PlainStepCfg)
    /\ UnitsConstruct
    /\ op = "init"

\* The runs of step() at the edges of the configuration
StepEdgeSpec == StepEdgeInit /\ [][StepNext]_vars

WsInit ==
    /\ PolicyConstruct(50, 70)
    /\ ThresholdsConstruct("base", 2, 4)
    /\ FillsConstruct(150, DefaultPollInterval)
    /\ EnvInit
    /\ PlainEngine
    /\ StepConstruct(PlainStepCfg)
    /\ UnitsConstruct
    /\ op = "init"

WsNext ==
    \/ OnMessageClose
    \/ OnMessageTs
    \/ KlineTest
    \/ KlineReadClose
    \/ KlineReadTs

\* The WebSocket thread and the polling thread, interleaved at every step
WsSpec == WsInit /\ [][WsNext]_vars

TrackInit == WsInit

TrackNext ==
    \/ now < MaxTrackClock /\ Tick(1)
    \/ \E futures_position_usdt \in FuturesUsdtArgs, spot_position_usdt \in SpotUsdtArgs :
          SyncPositions(futures_position_usdt, spot_position_usdt)

\* sync_positions() called at any second with any pair of position values
TrackSpec == TrackInit /\ [][TrackNext]_vars

ExitInit == WsInit

ExitNext ==
    \/ \E opened \in OpenedPositions : ExchangeOpens(opened)
    \/ ExchangeFills
    \/ \E ok \in BOOLEAN : SyncPosition(ok)
    \/ \E pair \in EmaPairs : UpdateEmas(pair)
    \/ \E price \in StratPrices, answer \in MarketAnswers, exit_answer \in MarketAnswers :
          CheckExits(price, answer, exit_answer)
    \/ \E price \in StratPrices, is_new_candle \in BOOLEAN, answer \in MarketAnswers :
          ManageStops(price, is_new_candle, answer)

\* The exits of the strategy: positions appear on the exchange and the
\* strategy syncs, takes profits and manages its stops in any order
ExitSpec == ExitInit /\ [][ExitNext]_vars

\* The strategy after initialize(), or after a full exit at the start of the
\* run, which began the entry cooldown
EntryInit ==
    /\ PolicyConstruct(50, 70)
    /\ ThresholdsConstruct("base", 2, 4)
    /\ FillsConstruct(150, DefaultPollInterval)
    /\ EnvInit
    /\ PlainEngine
    /\ StepConstruct(PlainStepCfg)
    /\ DeltaConstruct
    /\ EmaConstruct(PlainEmaCfg)
    /\ urgency = None
    /\ poll_call = None
    /\ WsConstruct
    /\ TrackerConstruct(PlainTrackerCfg)
    /\ \E pair \in EntryEmaPairs, last_entry_time \in {0, 30} :
          /\ ex = [position |-> 0, avg_price |-> 0, pending |-> 0, opened |-> 0,
                   open |-> {}, next_id |-> 1]
          /\ strat = [position |-> 0, avg_entry_price |-> 0, original_position_size |-> 0,
                      last_position_size |-> 0, tp_levels_hit |-> {},
                      ema9_position_value |-> 0, ema21_position_value |-> 0,
                      trailing_stop_price |-> None, hard_stop_price |-> None,
                      ema_fast |-> pair[1], ema_slow |-> pair[2],
                      trend |-> CalculateTrend(pair[1], pair[2]),
                      last_entry_time |-> last_entry_time, limit_orders |-> {},
                      last_ema9_order_time |-> 0, last_ema21_order_time |-> 0,
                      last_order_update_time |-> 0]
    /\ strat_call = None
    /\ life = [stops |-> None, tp_sent |-> << >>]
    /\ op = "init"

EntryNext ==
    \/ now + 10 <= MaxStratClock /\ Tick(10)
    \/ \E pair \in EntryEmaPairs : UpdateEmas(pair)
    \/ \E answers \in EntryAnswers : ManageEntryOrders(answers)
    \/ \E order_id \in 1 .. MaxOrderIds : ExchangeFillsEntry(order_id)
    \/ \E ok_position \in BOOLEAN, ok_orders \in BOOLEAN : SyncAll(ok_position, ok_orders)

\* The entries of the strategy: the averages move, update() manages the entry
\* orders and syncs, the exchange fills orders
EntrySpec == EntryInit /\ [][EntryNext]_vars





DeltaInit ==
    /\ PolicyConstruct(50, 70)
    /\ ThresholdsConstruct("base", 2, 4)
    /\ FillsConstruct(150, DefaultPollInterval)
    /\ EnvInit
    /\ PlainEngine
    /\ StepConstruct(PlainStepCfg)
    /\ snap_call \in {Some(a) : a \in SnapshotArgs}
    /\ snap = None
    /\ EmaConstruct(PlainEmaCfg)
    /\ urgency = None
    /\ poll_call = None
    /\ LateConstruct
    /\ op = "init"

DeltaNext == SnapshotCall

\* snapshot() applied to every pair of answers and every argument
DeltaSpec == DeltaInit /\ [][DeltaNext]_vars

EmaInit ==
    /\ PolicyConstruct(50, 70)
    /\ ThresholdsConstruct("base", 2, 4)
    /\ FillsConstruct(150, DefaultPollInterval)
    /\ EnvInit
    /\ PlainEngine
    /\ StepConstruct(PlainStepCfg)
    /\ DeltaConstruct
    /\ \E threshold_pct \in {0, 1} : EmaConstruct(EmaCfg(1, 3, threshold_pct))
    /\ urgency = None
    /\ poll_call = None
    /\ LateConstruct
    /\ op = "init"

EmaNext ==
    \/ \E closes \in SeqsUpTo(CloseArgs, MaxCloses) : Initialize(closes)
    \/ \E close_price \in CloseArgs, close_ts_ms \in 1 .. MaxCandleTs :
          OnClosedCandle(close_price, close_ts_ms)
    \/ \E current_price \in PriceArgs, delta_sign_needed \in {-1, 1} :
          GetBias(current_price, delta_sign_needed)

\* The estimator seeded from a list of closes, fed candles and asked for its bias
EmaSpec == EmaInit /\ [][EmaNext]_vars

\* The estimator as RebalancerRunner.run and SpotRebalancer.step use it: step()
\* hands it the latest closed candle and _combined_bias asks for its bias;
\* neither __init__, run nor step calls initialize()
RunnerEmaNext ==
    \/ \E close_price \in CloseArgs, close_ts_ms \in 1 .. MaxCandleTs :
          OnClosedCandle(close_price, close_ts_ms)
    \/ \E current_price \in PriceArgs, delta_sign_needed \in {-1, 1} :
          GetBias(current_price, delta_sign_needed)

RunnerEmaSpec == EmaInit /\ [][RunnerEmaNext]_vars

UrgencyInit ==
    /\ PolicyConstruct(50, 70)
    /\ ThresholdsConstruct("base", 2, 4)
    /\ FillsConstruct(150, DefaultPollInterval)
    /\ EnvInit
    /\ PlainEngine
    /\ StepConstruct(PlainStepCfg)
    /\ UnitsConstruct
    /\ op = "init"

\* The bias strength is the configured one (rebalancer.py:151-155); the
\* combined bias is clamped into [-1, 1] by _combined_bias (halves)
UrgencyNext ==
    \/ /\ decide_call = None
       /\ urgency = None
       /\ \E gap \in -MaxGap .. MaxGap, cb \in {-2, 0, 2} :
             DecideWithBias(gap, cb, step_cfg.strength2)
    \/ \E gap \in -MaxGap .. MaxGap, lower \in -2 .. 2, higher \in -2 .. 2 :
          DecideAtBiases(gap, lower, higher, step_cfg.strength2)

\* The policy, fresh or after one cycle, asked what it would do at two biases
UrgencySpec == UrgencyInit /\ [][UrgencyNext]_vars

PollInit ==
    /\ PolicyConstruct(50, 70)
    /\ ThresholdsConstruct("base", 2, 4)
    /\ FillsConstruct(150, DefaultPollInterval)
    /\ EnvInit
    /\ PlainEngine
    /\ StepConstruct(PlainStepCfg)
    /\ UnitsConstruct
    /\ op = "init"

PollNext ==
    \/ now < MaxPollClock /\ Tick(1)
    \/ ExchangeExecution("Buy", <<100, 1>>)
    \/ \E ok \in BOOLEAN : Update(ok)
    \/ \E bad_at \in 1 .. MaxExecs, defect \in Defects : UpdateDefective(bad_at, defect)

\* update() called second by second against an exchange that may fail or
\* answer with a defective record
PollSpec == PollInit /\ [][PollNext]_vars

----------------------------------------------------------------------------
(* Claims about RebalancePolicy.decide, checked under PolicySpec.           *)
(* The history variable decide_call holds the arguments of the last call    *)
(* and the retained pair before it; decision and the retained pair are the  *)
(* result of that call.                                                     *)

Sgn(x) == IF x > 0 THEN 1 ELSE IF x < 0 THEN -1 ELSE 0

\* The retained pair was set before the call, the gap has the opposite sign
\* and 100 * |gap| < hysteresis_fraction (hundredths) * last threshold.
GateCloses(c) ==
    /\ c.pre_threshold # None
    /\ c.pre_side # None
    /\ Sgn(c.gap) # 0
    /\ Sgn(c.gap) + c.pre_side[1] = 0
    /\ 100 * Abs(c.gap) < hysteresis_fraction * c.pre_threshold[1]

\* The ordinary hard/soft threshold rules
ThresholdRule(c) ==
    IF c.eff_hard > 0 /\ Abs(c.gap) >= c.eff_hard THEN "full"
    ELSE IF c.eff_soft > 0 /\ Abs(c.gap) >= c.eff_soft THEN "partial"
    ELSE "none"

\* C1: once an action has fired with threshold T on side s, a call whose gap
\* has the opposite sign and magnitude < hysteresis_fraction*T returns NONE
\* with target 0 whatever the thresholds are; every other call after an
\* action is decided by the ordinary hard/soft rules.
C1_HysteresisSuppression ==
    decide_call # None =>
        LET c == decide_call[1]
            d == decision[1]
        IN (c.pre_threshold # None /\ c.pre_side # None) =>
              IF GateCloses(c)
              THEN d = [action |-> "none", target_trade_base |-> 0]
              ELSE d.action = ThresholdRule(c)

\* C1 witness: a call suppressed by the gate although the hard threshold is reached.
C1_Witness ==
    /\ decide_call # None
    /\ GateCloses(decide_call[1])
    /\ ThresholdRule(decide_call[1]) = "full"
    /\ decision[1].action = "none"

\* C2 as stated: every call with |gap| >= eff_hard > 0 returns FULL.
C2_HardBreachAlwaysFull ==
    decide_call # None =>
        LET c == decide_call[1]
        IN (c.eff_hard > 0 /\ Abs(c.gap) >= c.eff_hard) => decision[1].action = "full"

\* C2 amended: a call with |gap| >= eff_hard > 0 returns FULL unless the
\* hysteresis gate closes on it (opposite sign to the last action and
\* |gap| < hysteresis_fraction * last threshold); then it returns NONE.
C2_HardBreachFullUnlessSuppressed ==
    decide_call # None =>
        LET c == decide_call[1]
        IN (c.eff_hard > 0 /\ Abs(c.gap) >= c.eff_hard) =>
              decision[1].action = (IF GateCloses(c) THEN "none" ELSE "full")

\* C2 witness: a reversal that passes the gate and is a hard breach exactly at the threshold.
C2_Witness ==
    /\ decide_call # None
    /\ decide_call[1].pre_side # None
    /\ Sgn(decide_call[1].gap) + decide_call[1].pre_side[1] = 0
    /\ ~GateCloses(decide_call[1])
    /\ Abs(decide_call[1].gap) = decide_call[1].eff_hard
    /\ decision[1].action = "full"

\* C3: whenever decide() returns FULL, target_trade_base + gap = 0 and the
\* retained pair becomes (eff_hard, sign(gap)).
C3_FullRestore ==
    (decide_call # None /\ decision[1].action = "full") =>
        LET c == decide_call[1]
        IN /\ decision[1].target_trade_base + 100 * c.gap = 0
           /\ last_action_threshold_used_abs = Some(c.eff_hard)
           /\ last_action_side = Some(Sgn(c.gap))

\* C3 witness: a FULL decision on a negative gap larger than eff_hard that
\* replaces a retained pair of the other side.
C3_Witness ==
    /\ decide_call # None
    /\ decision[1].action = "full"
    /\ decide_call[1].gap < 0
    /\ Abs(decide_call[1].gap) > decide_call[1].eff_hard
    /\ decide_call[1].pre_side = Some(1)
    /\ decide_call[1].pre_threshold # Some(decide_call[1].eff_hard)

\* C4 as stated: whenever decide() returns PARTIAL, target_trade_base is
\* -r*gap for the configured partial ratio r.
C4_PartialUsesConfiguredRatio ==
    (decide_call # None /\ decision[1].action = "partial") =>
        decision[1].target_trade_base = -(cfg_partial_ratio * decide_call[1].gap)

\* C4 amended: whenever decide() returns PARTIAL, eff_soft <= |gap| < eff_hard,
\* eff_soft > 0, the gate is open, target_trade_base = -r*gap where r is the
\* configured partial ratio clamped into [0,1], and the retained pair becomes
\* (eff_soft, sign(gap)).
C4_PartialUsesClampedRatio ==
    (decide_call # None /\ decision[1].action = "partial") =>
        LET c == decide_call[1]
            r == IF cfg_partial_ratio < 0 THEN 0
                 ELSE IF cfg_partial_ratio > 100 THEN 100 ELSE cfg_partial_ratio
        IN /\ c.eff_soft > 0
           /\ c.eff_soft <= Abs(c.gap)
           /\ Abs(c.gap) < c.eff_hard
           /\ ~GateCloses(c)
           /\ decision[1].target_trade_base = -(r * c.gap)
           /\ last_action_threshold_used_abs = Some(c.eff_soft)
           /\ last_action_side = Some(Sgn(c.gap))

\* C4 witness: a PARTIAL decision of a policy constructed with a ratio above 1.
C4_Witness ==
    /\ decide_call # None
    /\ decision[1].action = "partial"
    /\ cfg_partial_ratio > 100
    /\ decision[1].target_trade_base = -(100 * decide_call[1].gap)

\* C5: the retained pair changes only in a call that returns PARTIAL or FULL;
\* a call that returns NONE returns target 0 and leaves the pair as it was;
\* a pair that is set is never reset to null.
C5_HysteresisFrame ==
    decide_call # None =>
        LET c == decide_call[1]
            d == decision[1]
        IN /\ d.action = "none" =>
                 /\ d.target_trade_base = 0
                 /\ last_action_threshold_used_abs = c.pre_threshold
                 /\ last_action_side = c.pre_side
           /\ (last_action_threshold_used_abs # c.pre_threshold
                 \/ last_action_side # c.pre_side) => d.action \in {"partial", "full"}
           /\ c.pre_threshold # None => last_action_threshold_used_abs # None
           /\ c.pre_side # None => last_action_side # None

\* C5 witness: a NONE decision below both thresholds while a pair is retained.
C5_Witness ==
    /\ decide_call # None
    /\ decision[1].action = "none"
    /\ ~GateCloses(decide_call[1])
    /\ decide_call[1].gap # 0
    /\ decide_call[1].pre_threshold # None
    /\ last_action_threshold_used_abs = decide_call[1].pre_threshold

----------------------------------------------------------------------------
(* Claims about compute_effective_thresholds, checked under ThresholdSpec.  *)

\* The configured value converted to base units for the recorded call
BaseValue(value) ==
    IF th.units = "base"
    THEN value
    ELSE (value * eff_call[1].spot_notional_quote) \div eff_call[1].mark_price

\* bias_strength * combined_bias of the recorded call after clamping, in quarters
ClampedProduct ==
    LET bs == eff_call[1].bias_strength
        cb == eff_call[1].combined_bias
        b == IF bs < 0 THEN 0 ELSE IF bs > 2 THEN 2 ELSE bs
        k == IF cb < -2 THEN -2 ELSE IF cb > 2 THEN 2 ELSE cb
    IN b * k

\* C6: eff_hard >= eff_soft >= 0 for every bias_strength and combined_bias
\* (clamped first) and every non-negative soft/hard pair; when the expanded
\* hard value falls below eff_soft, eff_hard equals eff_soft.
C6_ThresholdOrdering ==
    eff_call # None =>
        /\ eff[1].soft >= 0
        /\ eff[1].hard >= eff[1].soft
        /\ BaseValue(th.hard) * (8 + ClampedProduct) < eff[1].soft
              => eff[1].hard = eff[1].soft
        /\ eff[1].soft = 2 * BaseValue(th.soft) * (4 + ClampedProduct)

\* C6 witness: the bias expansion inverts a correctly ordered configuration.
C6_Witness ==
    /\ eff_call # None
    /\ th.soft < th.hard
    /\ BaseValue(th.hard) * (8 + ClampedProduct) < eff[1].soft
    /\ eff[1].hard = eff[1].soft
    /\ eff_call[1].combined_bias > 2

\* C7: when the configured hard threshold converts to a positive base value,
\* eff_hard is strictly positive and at least half that value.
C7_HardNeverDisabled ==
    (eff_call # None /\ BaseValue(th.hard) > 0) =>
        /\ eff[1].hard > 0
        /\ eff[1].hard >= 4 * BaseValue(th.hard)

\* C7 witness: full strength and the most negative bias halve the hard threshold.
C7_Witness ==
    /\ eff_call # None
    /\ BaseValue(th.hard) > 0
    /\ ClampedProduct = -4
    /\ eff[1].hard = 4 * BaseValue(th.hard)
    /\ eff[1].soft = 0

----------------------------------------------------------------------------
(* Claims about RecentFillsAnchor, checked under FillsSpec.                 *)

RECURSIVE SumNotional(_, _)
SumNotional(fs, I) ==
    IF I = {} THEN 0
    ELSE LET i == CHOOSE k \in I : TRUE
         IN fs[i].price * fs[i].qty + SumNotional(fs, I \ {i})

RECURSIVE SumQty(_, _)
SumQty(fs, I) ==
    IF I = {} THEN 0
    ELSE LET i == CHOOSE k \in I : TRUE
         IN fs[i].qty + SumQty(fs, I \ {i})

\* Positions of the deque holding a fill of the side that is inside the window [now - w, now]
SideInWindow(side, w) ==
    {i \in 1 .. Len(fills) : fills[i].side = side /\ now - fills[i].ts <= w}

\* One position per distinct execution among the given positions
DistinctExecutions(I) == {i \in I : \A j \in I : fills[j].execId = fills[i].execId => i <= j}

\* C8: every distinct exchange execution appears at most once in the fill
\* window, so the reported net imbalance is bought minus sold quantity of the
\* distinct executions inside the window.
C8_EachExecutionCountedOnce ==
    /\ \A i, j \in 1 .. Len(fills) : fills[i].execId = fills[j].execId => i = j
    /\ op = "get_anchor" =>
          anchor[1].net_fill_imbalance_base =
              SumQty(fills, DistinctExecutions(SideInWindow("Buy", window_seconds)))
              - SumQty(fills, DistinctExecutions(SideInWindow("Sell", window_seconds)))

\* The value v (Optional exact fraction) is notional / qty, or None when qty = 0
IsQuotient(v, notional, qty) ==
    IF qty = 0
    THEN v = None
    ELSE v # None /\ v[1][1] * qty = notional * v[1][2] /\ v[1][2] > 0

\* C9: get_anchor() returns buy_vwap = sum(price*qty)/sum(qty) over the Buy
\* fills in the window, null when there are none, the symmetric value for
\* Sell, and net_fill_imbalance_base = Buy quantity - Sell quantity in the window.
C9_VwapCorrect ==
    op = "get_anchor" =>
        LET a == anchor[1]
            B == SideInWindow("Buy", window_seconds)
            S == SideInWindow("Sell", window_seconds)
        IN /\ IsQuotient(a.buy_vwap, SumNotional(fills, B), SumQty(fills, B))
           /\ IsQuotient(a.sell_vwap, SumNotional(fills, S), SumQty(fills, S))
           /\ a.net_fill_imbalance_base = SumQty(fills, B) - SumQty(fills, S)

\* C9 witness: two Buy fills at different prices, (100, 1) and (110, 2), and no Sell fill.
C9_Witness ==
    /\ op = "get_anchor"
    /\ anchor[1].buy_vwap = Some(<<320, 3>>)
    /\ anchor[1].sell_vwap = None
    /\ anchor[1].net_fill_imbalance_base = 3

\* The fill is not older than the constructor argument window_seconds (half seconds)
WithinConfiguredWindow(f) == 2 * (now - f.ts) <= cfg_window_seconds

\* The fill is not older than max(60, int(window_seconds))
WithinEffectiveWindow(f) ==
    now - f.ts <= (IF cfg_window_seconds \div 2 < 60 THEN 60 ELSE cfg_window_seconds \div 2)

\* C10 as stated: a fill older than the configured window_seconds at the time
\* of the call contributes to nothing get_anchor() returns: the result is the
\* one obtained with those fills removed from the deque.
C10_ConfiguredWindowPruning ==
    op = "get_anchor" =>
        /\ anchor[1] = AnchorOf(SelectSeq(fills, WithinConfiguredWindow), now, window_seconds)
        /\ anchor[1].sample_count
              = Cardinality({i \in 1 .. Len(fills) : WithinConfiguredWindow(fills[i])})

\* C10 amended: a fill older than max(60, int(window_seconds)) at the time of
\* the call contributes to nothing get_anchor() returns, whatever order the
\* fills were appended in.
C10_EffectiveWindowPruning ==
    op = "get_anchor" =>
        /\ anchor[1] = AnchorOf(SelectSeq(fills, WithinEffectiveWindow), now, window_seconds)
        /\ anchor[1].sample_count
              = Cardinality({i \in 1 .. Len(fills) : WithinEffectiveWindow(fills[i])})

\* C10 witness: after get_anchor() pruned, the deque still holds an old fill
\* behind a younger one, and a fill of the same side is inside the window.
C10_Witness ==
    /\ op = "get_anchor"
    /\ \E i, j \in 1 .. Len(fills) :
          /\ i < j
          /\ WithinEffectiveWindow(fills[i])
          /\ ~WithinEffectiveWindow(fills[j])
          /\ fills[j].side = "Buy"
    /\ anchor[1].sample_count > 0

----------------------------------------------------------------------------
(* Claims about SpotExecutionEngine, checked under ExecSpec and             *)
(* ExecFairSpec.  The history variable eng_call holds the arguments of the  *)
(* current or last call; orders is the log of the requests that call sent,  *)
(* each with the time it left the program and the exchange's answer.        *)

\* x clamped into [lo, hi], for lo <= hi
ClampedInto(x, lo, hi) == IF x < lo THEN lo ELSE IF x > hi THEN hi ELSE x

\* |qty_base| of the call clamped into the configured trade limits
CallClamped(c) == ClampedInto(Abs(c.qty_base), exec_cfg.min_trade_base, exec_cfg.max_trade_base)

InCall(fn) == eng_call # None /\ eng_call[1].fn = fn

CallDone(fn) == InCall(fn) /\ eng_pc = "idle"

OrdersOfType(type) == {i \in 1 .. Len(orders) : orders[i].type = type}

AcceptedLimits == {i \in OrdersOfType("Limit") : orders[i].status = "accepted"}

\* C17: market(side, qty) submits at most one market order, of |qty| clamped
\* into [min_trade_base, max_trade_base] on the given side; it returns false
\* without submitting anything when the clamped quantity is <= 0, false when
\* the exchange rejects the submission, and true only when the exchange
\* accepted it.
C17_MarketContract ==
    InCall("market") =>
        LET c == eng_call[1] IN
        /\ Len(orders) <= 1
        /\ \A i \in 1 .. Len(orders) :
              /\ orders[i].type = "Market"
              /\ orders[i].side = c.side
              /\ orders[i].qty = CallClamped(c)
        /\ CallClamped(c) <= 0 => orders = << >> /\ eng_ret = Some(FALSE)
        /\ (eng_pc = "idle" /\ CallClamped(c) > 0) => Len(orders) = 1
        /\ \A i \in 1 .. Len(orders) :
              orders[i].status = "rejected" => eng_ret = Some(FALSE)
        /\ eng_ret = Some(TRUE) => Len(orders) = 1 /\ orders[1].status = "accepted"

\* market("Buy", 5) under limits [1, 3] was accepted as an order for 3
C17_Witness ==
    /\ CallDone("market")
    /\ eng_call[1].qty_base = 5
    /\ exec_cfg.max_trade_base = 3
    /\ Len(orders) = 1
    /\ orders[1].qty = 3
    /\ eng_ret = Some(TRUE)

\* What C15 says of a call of maker_then_escalate, whatever the quantity
MakerOutcomeAsClaimed ==
    LET c == eng_call[1] IN
    /\ \A i \in AcceptedLimits : i = Len(orders) /\ eng_ret = Some(TRUE)
    /\ Cardinality(OrdersOfType("Market")) <= 1
    /\ (eng_pc = "idle" /\ AcceptedLimits = {}) =>
          IF c.allow_taker
          THEN /\ Cardinality(OrdersOfType("Market")) = 1
               /\ orders[Len(orders)].type = "Market"
               /\ eng_ret = Some(orders[Len(orders)].status = "accepted")
          ELSE /\ OrdersOfType("Market") = {}
               /\ eng_ret = Some(FALSE)

\* C15 as stated: maker_then_escalate returns true as soon as one limit
\* placement is accepted and then submits nothing more; with no placement
\* accepted before the deadline it submits exactly one market order when
\* allow_taker is true, returning that order's success, and no market order
\* when allow_taker is false, returning false.
C15_MakerOutcome ==
    InCall("maker_then_escalate") => MakerOutcomeAsClaimed

\* C15 amended: the stated outcome holds when the clamped quantity is > 0;
\* when it is <= 0 the call returns false at once and submits no order at
\* all, whatever allow_taker is.
C15_MakerOutcomeForPositiveQty ==
    InCall("maker_then_escalate") =>
        IF CallClamped(eng_call[1]) > 0
        THEN MakerOutcomeAsClaimed
        ELSE orders = << >> /\ eng_ret = Some(FALSE) /\ eng_pc = "idle"

\* Two limit placements were rejected, then the market fallback was accepted
C15_Witness ==
    /\ CallDone("maker_then_escalate")
    /\ eng_call[1].allow_taker
    /\ Len(orders) = 3
    /\ orders[1].type = "Limit" /\ orders[1].status = "rejected"
    /\ orders[2].type = "Limit" /\ orders[2].status = "rejected"
    /\ orders[3].type = "Market" /\ orders[3].status = "accepted"
    /\ eng_ret = Some(TRUE)

ChaseRespectsDeadline ==
    (InCall("maker_then_escalate") /\ CallClamped(eng_call[1]) > 0) =>
        LET c == eng_call[1] IN
        /\ eng_deadline = c.entered + Max(0, exec_cfg.chase_seconds2)
        /\ \A i \in OrdersOfType("Limit") : orders[i].at < eng_deadline
        /\ Cardinality(OrdersOfType("Market")) <= 1
        /\ \A i \in OrdersOfType("Market") : i = Len(orders)

\* C18: maker_then_escalate always terminates, given that the clock advances
\* and exchange calls return; the deadline is fixed once at entry as
\* now + max(0, chase_seconds), no limit placement attempt starts at or after
\* it, and after the loop at most one market order is submitted.
C18_ChaseTerminates ==
    /\ []ChaseRespectsDeadline
    /\ [][InCall("maker_then_escalate") /\ eng_pc # "idle" => eng_deadline' = eng_deadline]_vars
    /\ (InCall("maker_then_escalate") /\ eng_pc # "idle") ~> (eng_pc = "idle")

\* A call with chase_seconds = 1.5 ended without a market order after three
\* rejected limit placements
C18_Witness ==
    /\ CallDone("maker_then_escalate")
    /\ exec_cfg.chase_seconds2 = 3
    /\ ~eng_call[1].allow_taker
    /\ Len(orders) = 3
    /\ \A i \in 1 .. 3 : orders[i].type = "Limit" /\ orders[i].status = "rejected"
    /\ eng_ret = Some(FALSE)

----------------------------------------------------------------------------
(* Claims about SpotRebalancer.step, checked under StepSpec.  The history   *)
(* variable step_rec holds what the current or last step() that reached the *)
(* gap computation read and decided, with the retained hysteresis pair and  *)
(* the soft-wait start as they were before it; orders is the log of the     *)
(* requests that step sent; anchor is the anchor that step read.            *)

StepIs(outcomes) == step_rec # None /\ step_rec[1].outcome \in outcomes

StepReturned == step_pc = "idle"

\* |target_trade_base| clamped into the configured trade limits
StepClamped == ClampedInto(Abs(step_rec[1].target), exec_cfg.min_trade_base, exec_cfg.max_trade_base)

\* The side that corrects the gap: sell a positive gap, buy a negative one
CorrectingSide == IF step_rec[1].gap > 0 THEN "Sell" ELSE "Buy"

\* C11 as stated: whenever decide() returns FULL, a market order for
\* |target_trade_base| on the correcting side is submitted in that step,
\* whatever the anchor, the soft-wait timer and taker.allowed_on_hard are, and
\* the soft-wait timer is cleared.
C11_FullSubmitsTarget ==
    (step_rec # None /\ step_rec[1].action = "full") =>
        /\ Len(orders) = 1
        /\ orders[1].type = "Market"
        /\ orders[1].side = CorrectingSide
        /\ orders[1].qty = Abs(step_rec[1].target)
        /\ StepReturned => soft_wait_start = None

\* C11 amended: whenever decide() returns FULL, step() calls market() in that
\* step, whatever the anchor, the soft-wait timer and taker.allowed_on_hard
\* are: one market order on the correcting side for |target_trade_base| clamped
\* into [min_trade_base, max_trade_base] is submitted when that quantity is
\* > 0, and the soft-wait timer is cleared when the call returns.
C11_FullSubmitsClampedTarget ==
    (step_rec # None /\ step_rec[1].action = "full") =>
        /\ step_rec[1].outcome = "full"
        /\ InCall("market")
        /\ StepClamped > 0 =>
              /\ Len(orders) = 1
              /\ orders[1].type = "Market"
              /\ orders[1].side = CorrectingSide
              /\ orders[1].qty = StepClamped
        /\ StepClamped <= 0 => orders = << >>
        /\ StepReturned => soft_wait_start = None

\* A hard breach of +5 base units with an unfavourable anchor, a running soft
\* wait and allowed_on_hard off: the market order is for the limit of 3 units
C11_Witness ==
    /\ StepIs({"full"})
    /\ StepReturned
    /\ ~exec_cfg.allowed_on_hard
    /\ step_rec[1].pre_wait # None
    /\ ~step_rec[1].anchor_ok
    /\ step_rec[1].target = -4000
    /\ Len(orders) = 1
    /\ orders[1].qty = 2400
    /\ orders[1].side = "Sell"

\* The anchor as C12 words it, for the side of the order of the step
ClaimFavourable ==
    LET r == step_rec[1]
        a == anchor[1]
        bps == step_cfg.edge_bps_soft
    IN IF r.side = "Sell"
       THEN a.buy_vwap = None
            \/ r.price * a.buy_vwap[1][2] * 10000 >= a.buy_vwap[1][1] * (10000 + bps)
       ELSE a.sell_vwap = None
            \/ r.price * a.sell_vwap[1][2] * 10000 <= a.sell_vwap[1][1] * (10000 - bps)

\* Half seconds between the start of the soft wait and the step
ClaimWaited2 ==
    LET r == step_rec[1]
    IN IF r.pre_wait = None THEN 0 ELSE r.at - r.pre_wait[1]

\* C12: when decide() returns PARTIAL, maker_then_escalate is invoked in that
\* step if and only if the anchor is favourable (selling: price >= buy_vwap
\* plus the edge; buying: price <= sell_vwap minus the edge; a null VWAP on
\* the relevant side is favourable) or the time since the soft wait began is
\* >= max_wait_s_on_soft; a taker fallback is permitted only when
\* taker.allowed_on_soft is set.
C12_SoftBreachGate ==
    (step_rec # None /\ step_rec[1].action = "partial") =>
        /\ InCall("maker_then_escalate")
              <=> (ClaimFavourable \/ ClaimWaited2 >= 2 * step_cfg.max_wait_s_on_soft)
        /\ InCall("maker_then_escalate") =>
              /\ step_rec[1].outcome = "maker"
              /\ eng_call[1].allow_taker = exec_cfg.allowed_on_soft
              /\ eng_call[1].side = step_rec[1].side
              /\ eng_call[1].qty_base = Abs(step_rec[1].target)
        /\ ~exec_cfg.allowed_on_soft => OrdersOfType("Market") = {}
        /\ eng_call = None => orders = << >>

\* A soft breach went to maker_then_escalate against an unfavourable anchor
\* because the wait had lasted max_wait_s_on_soft
C12_Witness ==
    /\ StepIs({"maker"})
    /\ ~step_rec[1].anchor_ok
    /\ step_rec[1].pre_wait # None
    /\ step_rec[1].waited2 = 2 * step_cfg.max_wait_s_on_soft
    /\ InCall("maker_then_escalate")

\* C13: a step that defers a soft breach submits no order and leaves the
\* policy's retained threshold and side exactly as they were before the step.
C13_DeferralChangesNothing ==
    StepIs({"defer"}) =>
        /\ orders = << >>
        /\ last_action_threshold_used_abs = step_rec[1].pre_threshold
        /\ last_action_side = step_rec[1].pre_side

\* C14 as stated: once set, the soft-wait start stays unchanged across later
\* steps until a step in which an order action is executed or the gap is
\* exactly zero; a step that decides NONE on a non-zero gap does not clear it.
C14_WaitClearedOnlyByActionOrZeroGap ==
    (step_rec # None /\ step_rec[1].pre_wait # None /\ StepReturned) =>
        IF step_rec[1].outcome \in {"full", "maker", "zero_gap"}
        THEN soft_wait_start = None
        ELSE soft_wait_start = step_rec[1].pre_wait

\* C14 amended: once set, the soft-wait start stays unchanged across later
\* steps that defer again (and while an engine call is running); it is
\* cleared by a step in which an order action is executed, by a step that
\* finds the gap exactly zero, and also by a step in which decide() returns
\* NONE on a non-zero gap.
C14_WaitClearedAlsoByNone ==
    (step_rec # None /\ step_rec[1].pre_wait # None) =>
        IF ~StepReturned
        THEN soft_wait_start = step_rec[1].pre_wait
        ELSE IF step_rec[1].outcome \in {"full", "maker", "zero_gap", "none"}
        THEN soft_wait_start = None
        ELSE soft_wait_start = step_rec[1].pre_wait

\* A second deferral half a second or more after the first kept the start time
C14_Witness ==
    /\ StepIs({"defer"})
    /\ step_rec[1].pre_wait # None
    /\ step_rec[1].at > step_rec[1].pre_wait[1]
    /\ soft_wait_start = step_rec[1].pre_wait

\* The step's order was not placed: the engine returned false
AttemptFailed == StepIs({"full", "maker"}) /\ StepReturned /\ eng_ret = Some(FALSE)

\* The step before this one ended with the engine returning false, and this
\* step found the same gap and the same effective thresholds
AfterFailureUnchanged ==
    /\ step_rec # None
    /\ step_rec[1].prev # None
    /\ step_rec[1].prev[1].ret = Some(FALSE)
    /\ step_rec[1].prev[1].gap = step_rec[1].gap
    /\ step_rec[1].prev[1].eff_soft = step_rec[1].eff_soft
    /\ step_rec[1].prev[1].eff_hard = step_rec[1].eff_hard

\* C19: after an order placement fails, with the gap and the effective
\* thresholds unchanged, decide() returns the same non-NONE action on the
\* next step(), and so on every later one: the failed attempt leaves the
\* hysteresis side equal to the side the gap needs, which cannot close the
\* gate, and leaves no soft-wait start.
C19_FailureRetriggers ==
    /\ AttemptFailed =>
          /\ last_action_side = Some(Sgn(step_rec[1].gap))
          /\ soft_wait_start = None
    /\ AfterFailureUnchanged =>
          /\ step_rec[1].action = step_rec[1].prev[1].action
          /\ step_rec[1].action # "none"
          /\ step_rec[1].pre_wait = None

\* The step after a failed soft-breach attempt decided PARTIAL again on the
\* same gap and thresholds
C19_Witness ==
    /\ AfterFailureUnchanged
    /\ step_rec[1].prev[1].action = "partial"
    /\ decision[1].action = "partial"

RejectedOrders == {i \in 1 .. Len(orders) : orders[i].status = "rejected"}

\* C20 as stated: within one step() a submission that the exchange rejects
\* is not attempted again, so one step() performs at most one rejected
\* placement attempt.
C20_AtMostOneRejection ==
    step_rec # None => Cardinality(RejectedOrders) <= 1

\* C20 amended: within one step() a rejected market order is never submitted
\* again, and nothing is submitted after it; a rejected limit placement of
\* maker_then_escalate is submitted again, no sooner than half a second later
\* and only before the chase deadline, so one step() performs at most one
\* rejected market submission but possibly several rejected limit placements.
C20_RejectedMarketNotRetried ==
    step_rec # None =>
        /\ Cardinality(RejectedOrders \cap OrdersOfType("Market")) <= 1
        /\ \A i \in RejectedOrders \cap OrdersOfType("Market") : i = Len(orders)
        /\ \A i \in OrdersOfType("Limit"), j \in OrdersOfType("Limit") :
              i < j => /\ orders[i].status = "rejected"
                       /\ orders[j].at >= orders[i].at + 1
                       /\ orders[j].at < eng_deadline
        /\ StepIs({"full"}) => Len(orders) <= 1

\* One step saw two limit placements rejected and then its market order rejected
C20_Witness ==
    /\ StepIs({"maker"})
    /\ StepReturned
    /\ Len(orders) = 3
    /\ RejectedOrders = {1, 2, 3}
    /\ orders[3].type = "Market"

----------------------------------------------------------------------------
(* Claims about DeltaEngine, checked under DeltaSpec. The variable          *)
(* snap_call holds the answers snapshot() was given.                        *)

\* The balance read failed: no usable answer, or a wallet balance of the base
\* coin that is not a number
SpotReadFailed(resp) ==
    \/ resp.kind # "ok"
    \/ \E i \in 1 .. Len(resp.coins) :
          /\ resp.coins[i].coin = BaseSymbol
          /\ resp.coins[i].walletBalance.k = "bad"

\* The wallet balances of the base coin in an answer, added up
RECURSIVE WalletTotal(_)
WalletTotal(coins) ==
    IF coins = << >> THEN 0
    ELSE (IF Head(coins).coin = BaseSymbol THEN Head(coins).walletBalance.v ELSE 0)
             + WalletTotal(Tail(coins))

\* The position read failed: no usable answer, a size that is not a number,
\* or no usable price for an open position
FuturesReadFailed(resp, mark_price) ==
    \/ resp.kind # "ok"
    \/ /\ resp.list # << >>
       /\ \/ resp.list[1].size.k = "bad"
          \/ mark_price = None /\ resp.list[1].markPrice.k # "num"

\* +size for a long position, -size for a short one, 0 without a position
PositionSigned(resp) ==
    IF resp.list = << >> THEN 0
    ELSE IF resp.list[1].side = "Buy" THEN resp.list[1].size.v
    ELSE IF resp.list[1].side = "Sell" THEN 0 - resp.list[1].size.v
    ELSE 0

\* C22 as stated: get_spot_base() returns exactly 0 on any read failure,
\* including a failure part-way through the coin entries. Violated: a balance
\* that cannot be parsed after others were added returns the partial sum.
C22_SpotZeroOnAnyFailure ==
    snap # None =>
        (SpotReadFailed(snap_call[1].balance) => snap[1].spot_base = 0)

\* C21 as stated: snapshot() returns net_base_delta = spot_base - futures_base
\* for every outcome of the two queries, a leg whose read failed contributing 0
\* and a leg whose read succeeded its value (the futures leg +size for Buy,
\* -size for Sell). Violated through the partial sum of C22.
C21_SnapshotLegs ==
    snap # None =>
        LET c == snap_call[1]
            r == snap[1]
        IN /\ r.net_base_delta = r.spot_base - r.futures_base
           /\ SpotReadFailed(c.balance) => r.spot_base = 0
           /\ ~SpotReadFailed(c.balance) => r.spot_base = WalletTotal(c.balance.coins)
           /\ FuturesReadFailed(c.position, c.mark_price) => r.futures_base = 0
           /\ ~FuturesReadFailed(c.position, c.mark_price) =>
                 r.futures_base = PositionSigned(c.position)

----------------------------------------------------------------------------
(* Claims about EmaTrendBias, checked under EmaSpec. The history variables  *)
(* bias_call and candle_call hold the arguments of the last calls.          *)

\* -1 <= f <= 1 for a fraction f
InUnitInterval(f) == f[2] > 0 /\ 0 - f[2] <= f[1] /\ f[1] <= f[2]

\* C25: get_bias returns a value in [-1, +1] for every state of the averages,
\* price and direction; 0 when unseeded; with a slope component of 0 when
\* prev_ema_fast is None or <= 0 and a trend component of 0 when ema_slow <= 0.
C25_BiasBounded ==
    (ema_bias # None /\ op = "get_bias") =>
        LET r == ema_bias[1] IN
        /\ InUnitInterval(r.bias)
        /\ (ema.ema_fast = None \/ ema.ema_slow = None) => r.bias = Whole(0)
        /\ (ema.prev_ema_fast = None \/ ema.prev_ema_fast[1][1] <= 0) => r.slope = Whole(0)
        /\ (ema.ema_slow # None /\ ema.ema_slow[1][1] <= 0) => r.trend = 0

\* get_bias was asked of a seeded estimator whose slow average is <= 0 and
\* whose previous fast average is <= 0 while the fast average is above it
C25_Witness ==
    /\ op = "get_bias"
    /\ ema_bias # None
    /\ Seeded
    /\ ema.ema_slow[1][1] <= 0
    /\ ema.prev_ema_fast # None
    /\ ema.prev_ema_fast[1][1] <= 0
    /\ ema.ema_fast[1][1] > 0
    /\ ema_bias[1].bias = Whole(0)

\* C27 as stated: a closed candle whose close timestamp is not later than the
\* last one taken (the same candle again, or an older one) leaves ema_fast,
\* ema_slow and prev_ema_fast of a seeded estimator unchanged. Violated:
\* on_closed_candle never looks at the timestamp.
C27_RepeatedCandleIgnored ==
    (candle_call # None /\ op = "on_closed_candle") =>
        LET c == candle_call[1] IN
        (/\ c.pre.ema_fast # None
         /\ c.pre.ema_slow # None
         /\ c.pre.last_ts # None
         /\ c.close_ts_ms <= c.pre.last_ts[1])
            => /\ ema.ema_fast = c.pre.ema_fast
               /\ ema.ema_slow = c.pre.ema_slow
               /\ ema.prev_ema_fast = c.pre.prev_ema_fast

----------------------------------------------------------------------------
(* The claim about the bias and the decision, checked under UrgencySpec.    *)

\* NONE < PARTIAL < FULL
ActionRank(action) == IF action = "full" THEN 2 ELSE IF action = "partial" THEN 1 ELSE 0

\* C26 as stated: for the same thresholds, gap and retained pair, the decision
\* at the higher combined bias is at least as strong as the decision at the
\* lower one. Violated: a higher bias enlarges both thresholds.
C26_HigherBiasNeverWeaker ==
    urgency # None =>
        ActionRank(urgency[1].high.action) >= ActionRank(urgency[1].low.action)

----------------------------------------------------------------------------
(* Claims about update() under failures, checked under PollSpec.            *)

\* fs is what is left of pre after pruning from the left
PrunedFrom(fs, pre) ==
    \E k \in 1 .. Len(pre) + 1 : fs = SubSeq(pre, k, Len(pre))

\* C23 as stated: when the processing of the answer fails on a malformed
\* record, no fill is appended by that call and the window holds exactly the
\* fills it held before, apart from age pruning. Violated: the records around
\* the defective one are appended.
C23_FailedUpdateAppendsNothing ==
    (op = "update_defective" /\ poll_call # None /\ poll_call[1].queried) =>
        PrunedFrom(fills, poll_call[1].pre_fills)

\* C24: two queries of the execution source are never less than
\* poll_interval_s apart, whether or not the earlier one succeeded (every
\* query, and only a query, sets last_poll_time to the time of the call).
C24_QueriesSpaced ==
    [][last_poll_time' # last_poll_time =>
          last_poll_time' - last_poll_time >= poll_interval_s]_vars

\* An update() that did not query, because a query that failed (an execution
\* older than it is still not cached) was made less than poll_interval_s before
C24_Witness ==
    /\ op = "update"
    /\ last_poll_time >= 30
    /\ last_poll_time < now
    /\ now - last_poll_time < poll_interval_s
    /\ execs # << >>
    /\ execs[1].execTime <= last_poll_time
    /\ fills = << >>

----------------------------------------------------------------------------
(* Further claims about step(), checked under StepSpec.                     *)

\* The step before this one decided PARTIAL and deferred
AfterDeferral ==
    /\ step_rec # None
    /\ step_rec[1].prev # None
    /\ step_rec[1].prev[1].action = "partial"
    /\ step_rec[1].prev[1].ret = None

\* When the soft wait of the step began: at the step itself if none was running
ClaimWaitStart ==
    IF step_rec[1].pre_wait = None THEN step_rec[1].at ELSE step_rec[1].pre_wait[1]

\* C28: a soft breach is never deferred forever. While decide() returns
\* PARTIAL on consecutive steps, a deferring step keeps the wait start set at
\* the first of them, and no step defers once max_wait_s_on_soft has elapsed
\* since that start: that step invokes maker_then_escalate.
C28_SoftBreachNotDeferredForever ==
    (step_rec # None /\ step_rec[1].action = "partial") =>
        /\ AfterDeferral =>
              /\ step_rec[1].pre_wait # None
              /\ step_rec[1].pre_wait[1] < step_rec[1].at
        /\ StepIs({"defer"}) => soft_wait_start = Some(ClaimWaitStart)
        /\ step_rec[1].at - ClaimWaitStart >= 2 * step_cfg.max_wait_s_on_soft =>
              /\ step_rec[1].outcome = "maker"
              /\ InCall("maker_then_escalate")

\* Two deferrals in a row and then, a second after the first, the step that
\* hands the soft breach to maker_then_escalate although the anchor is unfavourable
C28_Witness ==
    /\ AfterDeferral
    /\ StepIs({"maker"})
    /\ ~step_rec[1].anchor_ok
    /\ step_rec[1].at - ClaimWaitStart = 2 * step_cfg.max_wait_s_on_soft
    /\ eng_call # None
    /\ eng_call[1].fn = "maker_then_escalate"

----------------------------------------------------------------------------
(* Claims about the orders of step() at the edges of the configuration,     *)
(* checked under StepEdgeSpec. Quantities are in 1/800 of a base unit.      *)

\* |gap| of the step in the unit of the order quantities
ClaimGapQty == 800 * Abs(step_rec[1].gap)

\* C29 as stated: every order submitted by step() is on the correcting side,
\* Sell when the gap is positive and Buy when it is negative, for every
\* configuration, partial_rebalance_ratio = 0 included. Violated: with a ratio
\* of 0 the target of a positive gap is not below 0 and the order is a Buy.
C29_OrdersOnCorrectingSide ==
    step_rec # None =>
        \A i \in 1 .. Len(orders) : orders[i].side = CorrectingSide

\* C30 as stated: no order submitted by step() has a quantity larger than
\* |gap|, also when |target_trade_base| is smaller than min_trade_base.
\* Violated: the engine raises the quantity to min_trade_base.
C30_OrdersWithinGap ==
    step_rec # None =>
        \A i \in 1 .. Len(orders) : orders[i].qty <= ClaimGapQty

----------------------------------------------------------------------------
(* The claim about resting orders, checked under StepSpec. An accepted      *)
(* limit order rests on the exchange until it is filled or cancelled; the   *)
(* engine never cancels, and a fill would change the spot balance.          *)

\* The step before this one handed a soft breach to maker_then_escalate,
\* which returned true on an accepted limit order (no taker allowed), and the
\* exposure read by this step shows that nothing was filled since
EarlierLimitStillResting ==
    /\ step_rec # None
    /\ step_rec[1].prev # None
    /\ step_rec[1].prev[1].action = "partial"
    /\ step_rec[1].prev[1].ret = Some(TRUE)
    /\ ~exec_cfg.allowed_on_soft
    /\ step_rec[1].prev[1].gap = step_rec[1].gap

\* C31 as stated: step() does not place a new maker order while an earlier
\* accepted one is still resting unfilled and uncancelled. Violated: the next
\* step finds the same gap and places a second limit order.
C31_OneRestingOrder ==
    EarlierLimitStillResting => AcceptedLimits = {}

\* C32: if eff_hard is 0, as with thresholds in percent of the spot notional
\* when the spot balance is zero, decide() returns NONE for every gap and
\* step() submits no order in that cycle.
C32_ZeroThresholdsNeverAct ==
    /\ (decide_call # None /\ decide_call[1].eff_hard = 0 /\ op = "step") =>
            decision[1].action = "none"
    /\ (step_rec # None /\ step_rec[1].eff_hard = 0) =>
            /\ step_rec[1].action = "none"
            /\ step_rec[1].outcome \in {"none", "zero_gap"}
            /\ eng_call = None

\* A step with thresholds in percent of the notional read a spot balance of 0
\* and a gap of -2: both effective thresholds are 0 and nothing is done
C32_Witness ==
    /\ StepIs({"none"})
    /\ th.units = "percent"
    /\ exposure.spot = 0
    /\ step_rec[1].gap = -2
    /\ step_rec[1].eff_hard = 0
    /\ decide_call # None
    /\ decide_call[1].eff_hard = 0
    /\ orders = << >>

KlineOfOneCandle ==
    \E n \in 1 .. ws_feed : kline[1] = [close |-> CandleClose(n), ts |-> CandleEnd(n)]

\* C34 as stated: the (close, ts) pair step() reads through
\* get_latest_closed_kline() belongs to one and the same closed candle under
\* every interleaving of _on_message with the polling thread. Violated: the
\* two attributes are written and read one at a time.
C34_KlineFromOneCandle ==
    kline # None => KlineOfOneCandle

\* Whether the i-th sync found the divergence above the threshold
SyncAbove(i) == sync_log[i].magnitude > tracker_cfg.divergence_threshold_usdt

\* The first sync of the run of syncs above the threshold that ends with the
\* last sync (0 if the last sync was not above)
RunStart ==
    IF sync_log = << >> \/ ~SyncAbove(Len(sync_log)) THEN 0
    ELSE CHOOSE i \in 1 .. Len(sync_log) :
            /\ \A j \in i .. Len(sync_log) : SyncAbove(j)
            /\ i = 1 \/ ~SyncAbove(i - 1)

\* C35: sync_positions() reports needs_rebalance only if the divergence
\* magnitude exceeded divergence_threshold_usdt at every sync since
\* divergence_start_time and more than divergence_timeout_seconds have passed
\* since then; a sync at or below the threshold resets the timer; and
\* divergence_start_time is set exactly when is_diverging is true.
C35_RebalanceOnlyAfterSustainedDivergence ==
    /\ (tracker.divergence_start_time # None) <=> tracker.is_diverging
    /\ (sync_ret # None /\ sync_ret[1].needs_rebalance) =>
            /\ RunStart > 0
            /\ tracker.divergence_start_time = Some(sync_log[RunStart].at)
            /\ sync_ret[1].sync_time - sync_log[RunStart].at >
                   tracker_cfg.divergence_timeout_seconds
    /\ (sync_log # << >> /\ ~SyncAbove(Len(sync_log))) =>
            /\ tracker.divergence_start_time = None
            /\ ~sync_ret[1].needs_rebalance

\* A divergence was dropped by a sync at the threshold, began again and has
\* now lasted longer than the timeout: needs_rebalance is reported
C35_Witness ==
    /\ Len(sync_log) = 3
    /\ sync_log[1].magnitude = 10
    /\ SyncAbove(2)
    /\ sync_ret[1].needs_rebalance
    /\ sync_ret[1].divergence_duration = Some(3)

\* The stops manage_stops has just left, compared with the stops the previous
\* manage_stops left while self.position has had one sign since
StopsNotLoosened ==
    /\ strat.position > 0 =>
           /\ strat'.trailing_stop_price[1] >= life.stops[1][1]
           /\ strat'.hard_stop_price[1] >= life.stops[1][2]
    /\ strat.position < 0 =>
           /\ strat'.trailing_stop_price[1] <= life.stops[1][1]
           /\ strat'.hard_stop_price[1] <= life.stops[1][2]

\* C36 as stated: while the position is long, trailing_stop_price and
\* hard_stop_price never decrease between manage_stops calls, while it is
\* short they never increase, and the stops are set anew only after the
\* position is closed. Violated: an accepted full exit clears the stops
\* although the position it read back is still open.
C36_StopsOnlyTighten ==
    [][(/\ op' = "manage_stops"
        /\ life.stops # None
        /\ strat.position # 0
        /\ Sign(strat'.position) = Sign(strat.position)
        /\ strat'.trailing_stop_price # None) => StopsNotLoosened]_vars

\* The take-profit orders of one call
TpOrders(sent) == SelectSeq(sent, LAMBDA o : o.kind = "tp")

\* C37: with take profits at market, within one position lifecycle each of
\* tp1, tp2, tp3 triggers an exit order at most once, and one check_exits call
\* triggers at most one level.
C37_EachLevelOnce ==
    /\ \A i, j \in 1 .. Len(life.tp_sent) : life.tp_sent[i] = life.tp_sent[j] => i = j
    /\ strat_call # None => Len(TpOrders(strat_call[1].sent)) <= 1

\* All three levels have sent their order, one call each, the last by a
\* check_exits that saw the price above every level
C37_Witness ==
    /\ life.tp_sent = <<"tp1", "tp2", "tp3">>
    /\ op = "check_exits"
    /\ Len(TpOrders(strat_call[1].sent)) = 1
    /\ strat.tp_levels_hit = {"tp1", "tp2", "tp3"}

\* C38 as stated: a level is recorded in tp_levels_hit only if its exit order
\* was accepted; a skipped or rejected level stays eligible. Violated:
\* check_exits records the level whatever execute_tp_level did.
C38_RecordedOnlyIfAccepted ==
    [][\A tp \in strat'.tp_levels_hit \ strat.tp_levels_hit :
          \E i \in 1 .. Len(strat_call'[1].sent) :
              /\ strat_call'[1].sent[i].kind = "tp"
              /\ strat_call'[1].sent[i].tp = tp
              /\ strat_call'[1].sent[i].accepted]_vars

\* C39: limit_orders never holds two entries with the same level ('9', '21').
C39_OneOrderPerLevel ==
    \A o, q \in strat.limit_orders : o.ema = q.ema => o = q

\* A call moved the order at EMA21 to the new average and placed the one at
\* EMA9: orders at both levels are tracked
C39_Witness ==
    /\ op = "manage_entry_orders"
    /\ \E i \in DOMAIN strat_call[1].sent :
          strat_call[1].sent[i].kind = "reprice" /\ strat_call[1].sent[i].accepted
    /\ \E i \in DOMAIN strat_call[1].sent :
          strat_call[1].sent[i].kind = "entry" /\ strat_call[1].sent[i].accepted
    /\ \E o \in strat.limit_orders : o.ema = "9"
    /\ \E o \in strat.limit_orders : o.ema = "21" /\ o.id > 1

\* The entry orders a call submitted from its placing section
EntryOrders(sent) == SelectSeq(sent, LAMBDA o : o.kind = "entry")

\* C40 as stated: when can_place_new is false, manage_entry_orders places no
\* entry order and returns normally, without raising, for every trend value.
\* Violated: with an uptrend or a downtrend it raises, reading needs_ema9.
C40_CooldownReturnsNormally ==
    (op = "manage_entry_orders" /\ strat_call[1].arg = Some(FALSE)) =>
        /\ ~strat_call[1].raised
        /\ EntryOrders(strat_call[1].sent) = << >>

====
